---- MODULE Spec2Model ----
(***************************************************************************)
(* The timer page (SolverPage, src/unnamed/part_000): its timer state      *)
(* machine, the two requestAnimationFrame clock loops, the arm timer, the  *)
(* operations guarded by `loading` (saveSolveImmediately and               *)
(* handleUpdateLastSolvePenalty), and around them the scramble, the live   *)
(* statistics, the optimal solution, the messages and the stored           *)
(* inspection preference.                                                  *)
(*                                                                         *)
(* Execution model.  JavaScript runs every event handler, timer callback,  *)
(* animation frame and promise continuation to completion, and React       *)
(* commits the render that the handler's setState calls ask for, with its  *)
(* effects (the ref syncs of lines 52-58, the listener registration of     *)
(* lines 298-320), before the next event is dispatched.  One action is     *)
(* therefore one handler followed by Commit.  All useCallback dependency   *)
(* lists of the page are complete, so after a commit every closure reads   *)
(* the committed state.  A setState call made after the page was unmounted *)
(* is dropped by React: refs, timers and calls in flight still change.     *)
(*                                                                         *)
(* Time.  `now` is the one clock behind performance.now() and setTimeout,  *)
(* counted in units of 1/Res millisecond so that Math.floor does work.     *)
(* spaceDownTimeRef (line 43) is written and never read: it is left out.   *)
(*                                                                         *)
(* Scope.  The handlers of the timer (lines 160-351) read no variable of   *)
(* the surroundings (messages, scramble, statistics, solution), and the    *)
(* surroundings write no variable of the timer.  A specification records   *)
(* the surroundings its claims are about and leaves the others as they     *)
(* were at the mount (Recorded); the variables it records are closed under *)
(* what its actions and their guards read.  The actions and handlers are   *)
(* the same in all of them.                                                *)
(*   Spec         the timer on the fine clock Instants                     *)
(*   LiveSpec     the timer on the coarse clock PageInstants, with every   *)
(*                pending collaborator call eventually settled             *)
(*   LifeSpec     the timer, the saving message and its timer, with the    *)
(*                unmount and the reload of the page                       *)
(*   SaveSpec     the timer, the messages and the live statistics          *)
(*   SolutionSpec the timer, the scramble and the optimal solution         *)
(*   CallsSpec    the timer and every collaborator call of the page        *)
(*   OutcomeSpec  the timer and what a save and a penalty update leave on  *)
(*                the page                                                 *)
(*   ScrambleSpec the timer, the scramble and when it was requested        *)
(*   ScoreSpec    the timer, the score of the last solve and the calls of  *)
(*                handleScoreSolve                                         *)
(*   PreferenceSpec the timer and the inspection preference at the start   *)
(*                of each phase                                            *)
(*                                                                         *)
(* Two more components are modelled next to the page, each as one record   *)
(* with its own actions, which leave the timer page alone:                 *)
(*   AppSpec      the App component (src/unnamed/part_001): token, user,   *)
(*                the screen rendered and the calls in flight              *)
(*   SignupSpec   the SignupPage component (SignupPage.tsx): the skill     *)
(*                inputs, handleSubmit and its calls in flight             *)
(***************************************************************************)
EXTENDS Integers, FiniteSets, Sequences, TLC

\* ---------------------------------------------------------------- constants
INSPECTION_MS == 15000
LATE_PLUS2_MS == 2000
ARMING_THRESHOLD_MS == 500
\* Line 149: the delay after which the saving message is cleared.
SAVED_MESSAGE_MS == 2000
\* Line 402: the length of a cube state.
STATE_LENGTH == 54
\* SignupPage.tsx, line 36: the least length of a WCA id.
WCA_ID_MIN_LENGTH == 6
\* SignupPage.tsx, line 42: the greatest average, in seconds.
MAX_AVERAGE_SECONDS == 300

\* ------------------------------------------------------------------- bounds
\* Clock units per millisecond.
Res == 2
\* createSolve calls after which no new attempt is started.
MaxSolves == 2
\* Solves in SaveSpec, SolutionSpec, CallsSpec and ScrambleSpec.
MaxPageSolves == 1
\* getScramble calls of the New Scramble button and of the mount in flight.
MaxFetches == 1
\* getLiveStats calls in flight.
MaxStats == 1
\* scoreSolve calls of handleScoreSolve in flight.
MaxScores == 1
\* The accounts of the App component.
MaxAccounts == 2
\* Login calls of the App component.
MaxLogins == 2
\* Submits of the SignupPage that pass validateSkillInputs.
MaxSubmits == 1

\* The instants the clock visits (units of 1/Res ms).
Instants ==
    { 0, 400 * Res, 500 * Res, 15000 * Res + 1, 15400 * Res, 16200 * Res,
      17000 * Res, 17000 * Res + 1, 25000 * Res + 1 }

\* The instants the clock visits in the specifications with a message timer.
PageInstants == { 0, 500 * Res, 2500 * Res }

\* The instants the clock visits in SolutionSpec and CallsSpec.
CallInstants == { 0, 500 * Res }

\* The instants the clock visits in PreferenceSpec: the last one is past the
\* end of an inspection begun at either of the others.
PreferenceInstants == { 0, 500 * Res, 16200 * Res }

TimerStates == {"idle", "arming", "ready", "inspection", "running", "stopped"}

\* The values a penalty button passes (lines 558-578).
Penalties == {"OK", "+2", "DNF"}

\* What localStorage.getItem('inspectionEnabled') can return at startup:
\* null, what the page wrote earlier, or any other string.
NoItem == "null"
StoredValues == {NoItem, "true", "false", "yes"}

\* The cube state of a scramble: the scramble it belongs to and its length.
\* useState('') of lines 16-17 is scramble 0 with the empty state.
NoState == [of |-> 0, len |-> 0]

\* No save is in flight.  A save in flight is the phase it is in, the id the
\* solve gets, and what was sent to createSolve (lines 112-119).
NoSave ==
    [phase |-> "none", id |-> 0, timeMs |-> 0, penalty |-> "OK",
     scramble |-> 0, state |-> NoState]

\* The bodies getScramble can resolve with: scramble 1 comes with a state of
\* 54 characters, scramble 2 with one of 53.
Responses ==
    { [scramble |-> 1, state |-> [of |-> 1, len |-> STATE_LENGTH]],
      [scramble |-> 2, state |-> [of |-> 2, len |-> STATE_LENGTH - 1]] }

\* No getOptimalSolution call in flight.
NoRequest == [of |-> 0 - 1, len |-> 0]

NoStats == [from |-> "none", id |-> 0]

VARIABLES
    timerState,         \* useState, line 18
    currentTime,        \* useState, line 19 (ms)
    lastSolve,          \* useState, line 20: id of the solve, 0 for null
    inspectionEnabled,  \* useState, line 24
    loading,            \* useState, line 29
    inspectionMsLeft,   \* useState, line 38 (clock units)
    inspectionOverMs,   \* useState, line 39 (clock units)
    startTimeRef,       \* useRef, line 41
    animationFrameRef,  \* useRef, line 42: 0 or the handle of the pending frame
    armingTimeoutRef,   \* useRef, line 44: 0 or the handle of the last arm timer
    inspectionStartRef, \* useRef, line 46
    inspectionRafRef,   \* useRef, line 47
    timerStateRef,      \* useRef, line 49
    loadingRef,         \* useRef, line 50
    frames,             \* the browser's pending animation frame callbacks:
                        \* how many of the stopwatch, how many of inspection
    timeouts,           \* the browser's pending arm timers, by deadline
    save,               \* the saveSolveImmediately call in flight
    update,             \* an updateSolve call is in flight
    nCreate,            \* number of apiClient.createSolve calls made
    stored,             \* localStorage item 'inspectionEnabled'
    now,                \* the clock
    spaceHeld,          \* the space key is physically down
    event,              \* history: the action that led to this state
    prevTimerState,     \* history: timerState before that action
    scope,              \* the specification: see the head of the module
    \* ---- the surroundings of the timer
    mounted,            \* the page is mounted
    scramble,           \* useState, line 16: 0 for ''
    scrambleState,      \* useState, line 17
    lastSolvePenalty,   \* useState, line 27
    error,              \* useState, line 30
    savingMessage,      \* useState, line 31
    optimalSolutionMoves, \* useState, line 34: 0 for null, else the scramble solved
    solutionLoading,    \* useState, line 35
    liveStats,          \* useState, line 21: where the statistics came from
    fetches,            \* getScramble calls in flight outside a save, in
                        \* the order of the calls: for each, history of when
                        \* it was made (RequestEpoch)
    statsPending,       \* getLiveStats calls in flight
    solution,           \* the state sent by the getOptimalSolution call in flight
    newPenalty,         \* the penalty sent by the updateSolve call in flight
    msgTimeouts,        \* pending timers of line 149, by deadline
    scrambleRequest,    \* history: when the getScramble call that returned
                        \* the scramble of line 16 was made (RequestEpoch)
    mlScore,            \* lastSolve.mlScore, lines 129-140 and 376-387: 0 for
                        \* null, else the id of the solve that was scored
    scoring,            \* scoreSolve calls of handleScoreSolve in flight, in
                        \* the order of the calls: the solveId of each
    enabledAt,          \* history: inspectionEnabled when the page last
                        \* entered inspection, and when it last entered running
    \* ---- the other components
    app,                \* the App component (src/unnamed/part_001), lines
                        \* 137-142, with its stored token and calls in flight
    signup              \* the SignupPage component (SignupPage.tsx), lines
                        \* 11-22, with its calls in flight and navigations

timerVars ==
    << timerState, currentTime, lastSolve, inspectionEnabled, loading,
       inspectionMsLeft, inspectionOverMs, startTimeRef, animationFrameRef,
       armingTimeoutRef, inspectionStartRef, inspectionRafRef, timerStateRef,
       loadingRef, frames, timeouts, save, update, nCreate, stored >>

pageVars ==
    << mounted, scramble, scrambleState, lastSolvePenalty, error,
       savingMessage, optimalSolutionMoves, solutionLoading, liveStats,
       fetches, statsPending, solution, newPenalty, msgTimeouts,
       scrambleRequest, mlScore, scoring, enabledAt >>

otherVars == << app, signup >>

vars ==
    << timerVars, pageVars, otherVars, now, spaceHeld, event, prevTimerState,
       scope >>

\* The page as one record, so that a handler is a function from page to page.
Page ==
    [ timerState |-> timerState, currentTime |-> currentTime,
      lastSolve |-> lastSolve, inspectionEnabled |-> inspectionEnabled,
      loading |-> loading, inspectionMsLeft |-> inspectionMsLeft,
      inspectionOverMs |-> inspectionOverMs, startTimeRef |-> startTimeRef,
      animationFrameRef |-> animationFrameRef,
      armingTimeoutRef |-> armingTimeoutRef,
      inspectionStartRef |-> inspectionStartRef,
      inspectionRafRef |-> inspectionRafRef, timerStateRef |-> timerStateRef,
      loadingRef |-> loadingRef, frames |-> frames, timeouts |-> timeouts,
      save |-> save, update |-> update, nCreate |-> nCreate,
      stored |-> stored, mounted |-> mounted, scramble |-> scramble,
      scrambleState |-> scrambleState, lastSolvePenalty |-> lastSolvePenalty,
      error |-> error, savingMessage |-> savingMessage,
      optimalSolutionMoves |-> optimalSolutionMoves,
      solutionLoading |-> solutionLoading, liveStats |-> liveStats,
      fetches |-> fetches, statsPending |-> statsPending,
      solution |-> solution, newPenalty |-> newPenalty,
      msgTimeouts |-> msgTimeouts, scrambleRequest |-> scrambleRequest,
      mlScore |-> mlScore, scoring |-> scoring ]

\* The effects of lines 52-58, run at every commit.
Commit(s) ==
    [s EXCEPT !.timerStateRef = s.timerState, !.loadingRef = s.loading]

\* The page p with every useState value (lines 16-39) as it is now: what a
\* handler that ran after the unmount leaves behind.
Dropped(p) ==
    [p EXCEPT !.timerState = timerState, !.currentTime = currentTime,
              !.lastSolve = lastSolve,
              !.inspectionEnabled = inspectionEnabled,
              !.loading = loading, !.inspectionMsLeft = inspectionMsLeft,
              !.inspectionOverMs = inspectionOverMs,
              !.scramble = scramble, !.scrambleState = scrambleState,
              !.lastSolvePenalty = lastSolvePenalty, !.error = error,
              !.savingMessage = savingMessage,
              !.optimalSolutionMoves = optimalSolutionMoves,
              !.solutionLoading = solutionLoading, !.liveStats = liveStats,
              !.scrambleRequest = scrambleRequest, !.mlScore = mlScore]

\* The variables of the surroundings each specification records.
Tracked ==
    [ timer |-> {},
      live |-> {},
      life |-> {"mounted", "savingMessage", "msgTimeouts"},
      save |-> {"error", "savingMessage", "msgTimeouts", "liveStats",
                "statsPending"},
      solution |-> {"scramble", "scrambleState", "fetches", "solution",
                    "solutionLoading", "optimalSolutionMoves", "error"},
      calls |-> {"scramble", "scrambleState", "fetches", "solution",
                 "solutionLoading", "statsPending"},
      outcome |-> {"error", "savingMessage", "lastSolvePenalty", "newPenalty",
                   "liveStats", "scramble", "scrambleState"},
      scramble |-> {"scramble", "scrambleState", "fetches", "scrambleRequest",
                    "error"},
      score |-> {"mlScore", "scoring", "error"},
      preference |-> {"enabledAt"},
      app |-> {},
      signup |-> {} ]

\* The value of the variable v of the surroundings after a step.
Recorded(v, new, old) == IF v \in Tracked[scope] THEN new ELSE old

\* History of a getScramble call made when n solves had been created: n, in
\* the specifications that record when the scramble was requested.
RequestEpoch(n) == Recorded("scrambleRequest", n, 0)

\* The sequence q without its i-th element.
Without(q, i) == SubSeq(q, 1, i - 1) \o SubSeq(q, i + 1, Len(q))

\* The next state is the page c; ev names the action taken.
Assign(c, ev) ==
    /\ event' = ev
    /\ prevTimerState' = timerState
    /\ scope' = scope
    /\ timerState' = c.timerState
    /\ currentTime' = c.currentTime
    /\ lastSolve' = c.lastSolve
    /\ inspectionEnabled' = c.inspectionEnabled
    /\ loading' = c.loading
    /\ inspectionMsLeft' = c.inspectionMsLeft
    /\ inspectionOverMs' = c.inspectionOverMs
    /\ startTimeRef' = c.startTimeRef
    /\ animationFrameRef' = c.animationFrameRef
    /\ armingTimeoutRef' = c.armingTimeoutRef
    /\ inspectionStartRef' = c.inspectionStartRef
    /\ inspectionRafRef' = c.inspectionRafRef
    /\ timerStateRef' = c.timerStateRef
    /\ loadingRef' = c.loadingRef
    /\ frames' = c.frames
    /\ timeouts' = c.timeouts
    /\ save' = c.save
    /\ update' = c.update
    /\ nCreate' = c.nCreate
    /\ stored' = c.stored
    /\ mounted' = Recorded("mounted", c.mounted, mounted)
    /\ scramble' = Recorded("scramble", c.scramble, scramble)
    /\ scrambleState' = Recorded("scrambleState", c.scrambleState, scrambleState)
    /\ lastSolvePenalty' = Recorded("lastSolvePenalty", c.lastSolvePenalty, lastSolvePenalty)
    /\ error' = Recorded("error", c.error, error)
    /\ savingMessage' = Recorded("savingMessage", c.savingMessage, savingMessage)
    /\ optimalSolutionMoves' =
           Recorded("optimalSolutionMoves", c.optimalSolutionMoves, optimalSolutionMoves)
    /\ solutionLoading' = Recorded("solutionLoading", c.solutionLoading, solutionLoading)
    /\ liveStats' = Recorded("liveStats", c.liveStats, liveStats)
    /\ fetches' = Recorded("fetches", c.fetches, fetches)
    /\ statsPending' = Recorded("statsPending", c.statsPending, statsPending)
    /\ solution' = Recorded("solution", c.solution, solution)
    /\ newPenalty' = Recorded("newPenalty", c.newPenalty, newPenalty)
    /\ msgTimeouts' = Recorded("msgTimeouts", c.msgTimeouts, msgTimeouts)
    /\ scrambleRequest' =
           Recorded("scrambleRequest", c.scrambleRequest, scrambleRequest)
    /\ mlScore' = Recorded("mlScore", c.mlScore, mlScore)
    /\ scoring' = Recorded("scoring", c.scoring, scoring)
    /\ enabledAt' =
           Recorded("enabledAt",
                    [inspection |->
                        IF timerState # "inspection" /\ c.timerState = "inspection"
                        THEN c.inspectionEnabled ELSE enabledAt.inspection,
                     timing |->
                        IF timerState # "running" /\ c.timerState = "running"
                        THEN c.inspectionEnabled ELSE enabledAt.timing],
                    enabledAt)
    /\ UNCHANGED otherVars

\* The next state is what the handler made of the page, committed.
Becomes(p, ev) ==
    Assign(IF mounted THEN Commit(p) ELSE Dropped(p), ev)

\* ------------------------------------------------------------ pure helpers
Max(a, b) == IF a >= b THEN a ELSE b

\* Math.floor of a non-negative duration in clock units, in ms.
Floor(d) == d \div Res

\* Mutant of AutoPenalty: the +2 window excludes an overrun of exactly 2000 ms.
AutoPenalty_inclusive(enabled, overMs) ==
    IF enabled /\ overMs >= LATE_PLUS2_MS * Res THEN "DNF"
    ELSE IF enabled /\ overMs > 0 THEN "+2"
    ELSE "OK"

\* Lines 235-241: the auto-penalty of stopTimer.
AutoPenalty(enabled, overMs) ==
    IF enabled /\ overMs > LATE_PLUS2_MS * Res THEN "DNF"
    ELSE IF enabled /\ overMs > 0 THEN "+2"
    ELSE "OK"

\* Number.prototype.toFixed(2) of ms / 1000, for ms >= 0 in clock units: the
\* hundredths of a second nearest to it, a half rounded up.
ToFixed2(d) == (d + 5 * Res) \div (10 * Res)

\* Lines 437-443, the inspection branch of renderMainTime: the sign shown and
\* the hundredths of a second after it.
renderMainTime(s) ==
    IF s.inspectionMsLeft > 0
    THEN [sign |-> "", hundredths |-> ToFixed2(s.inspectionMsLeft)]
    ELSE [sign |-> "+", hundredths |-> ToFixed2(s.inspectionOverMs)]

\* --------------------------------------------------------------- functions
\* Lines 90-97: loadStats up to its await.
loadStats(s) == [s EXCEPT !.statsPending = @ + 1]

\* Lines 92-93: getLiveStats resolved.
loadStatsResolved(s) ==
    [s EXCEPT !.statsPending = @ - 1, !.liveStats = [from |-> "stats", id |-> 0]]

\* Lines 94-96: getLiveStats rejected; the failure is logged.
loadStatsRejected(s) == [s EXCEPT !.statsPending = @ - 1]

\* Lines 78-82: loadNewScramble up to its await.
loadNewScramble(s) == [s EXCEPT !.error = "", !.optimalSolutionMoves = 0]

\* Mutant of loadNewScrambleResolved: setScrambleState is missing.
loadNewScrambleResolved_keepsState(s, r) == [s EXCEPT !.scramble = r.scramble]

\* Lines 83-84: getScramble resolved with the body r.
loadNewScrambleResolved(s, r) ==
    [s EXCEPT !.scramble = r.scramble, !.scrambleState = r.state]

\* Mutant of loadNewScrambleRejected: the failure also resets the timer.
loadNewScrambleRejected_resets(s) ==
    [s EXCEPT !.error = "Failed to load scramble", !.timerState = "idle"]

\* Lines 85-87: getScramble rejected.
loadNewScrambleRejected(s) == [s EXCEPT !.error = "Failed to load scramble"]

\* Lines 105-119: saveSolveImmediately up to its first await.
saveSolveImmediately(s, timeMs, autoPenalty) ==
    [s EXCEPT !.loading = TRUE,
              !.savingMessage = "Saving...",
              !.error = "",
              !.nCreate = @ + 1,
              !.save = [phase |-> "createSolve", id |-> s.nCreate + 1,
                        timeMs |-> timeMs, penalty |-> autoPenalty,
                        scramble |-> s.scramble, state |-> s.scrambleState]]

\* Mutant of stopInspection: the frame is cancelled without looking at the ref.
stopInspection_unguarded(s) ==
    [s EXCEPT !.frames.inspection = @ - 1, !.inspectionRafRef = 0]

\* Lines 160-165.
stopInspection(s) ==
    IF s.inspectionRafRef # 0
    THEN [s EXCEPT !.frames.inspection = @ - 1, !.inspectionRafRef = 0]
    ELSE s

\* Lines 170-173, 191-194, 228-231: cancel the stopwatch frame.
cancelStopwatch(s) ==
    IF s.animationFrameRef # 0
    THEN [s EXCEPT !.frames.stopwatch = @ - 1, !.animationFrameRef = 0]
    ELSE s

\* Lines 167-186.
startTimer(s) ==
    IF s.loadingRef THEN s
    ELSE [cancelStopwatch(s) EXCEPT
            !.startTimeRef = now,
            !.timerState = "running",
            !.currentTime = 0,
            !.frames.stopwatch = @ + 1,
            !.animationFrameRef = 1]

\* Lines 188-217.
startInspection(s) ==
    IF s.loadingRef THEN s
    ELSE [stopInspection(cancelStopwatch(s)) EXCEPT
            !.inspectionStartRef = now,
            !.inspectionMsLeft = INSPECTION_MS * Res,
            !.inspectionOverMs = 0,
            !.timerState = "inspection",
            !.frames.inspection = @ + 1,
            !.inspectionRafRef = 1]

\* Mutant of beginSolveFromInspection: stopInspection is not called.
beginSolveFromInspection_keepsTicking(s) ==
    IF s.loadingRef THEN s ELSE startTimer(s)

\* Lines 219-224.
beginSolveFromInspection(s) ==
    IF s.loadingRef THEN s ELSE startTimer(stopInspection(s))

\* Mutant of stopTimer: setTimerState('idle') is missing.
stopTimer_keepsRunning(s) ==
    LET c == cancelStopwatch(s)
        finalTime == Floor(now - c.startTimeRef)
        autoPenalty == AutoPenalty(s.inspectionEnabled, s.inspectionOverMs)
    IN  [saveSolveImmediately(c, finalTime, autoPenalty) EXCEPT
            !.currentTime = 0]

\* Mutant of stopTimer: the time saved is the time last displayed.
stopTimer_lastDisplayed(s) ==
    LET c == cancelStopwatch(s)
        autoPenalty == AutoPenalty(s.inspectionEnabled, s.inspectionOverMs)
    IN  [saveSolveImmediately(c, s.currentTime, autoPenalty) EXCEPT
            !.currentTime = 0,
            !.timerState = "idle"]

\* Mutant of stopTimer: setCurrentTime(0) is missing.
stopTimer_keepsDisplay(s) ==
    LET c == cancelStopwatch(s)
        finalTime == Floor(now - c.startTimeRef)
        autoPenalty == AutoPenalty(s.inspectionEnabled, s.inspectionOverMs)
    IN  [saveSolveImmediately(c, finalTime, autoPenalty) EXCEPT
            !.timerState = "idle"]

\* Mutant of stopTimer: the pending stopwatch frame is not cancelled.
stopTimer_keepsFrame(s) ==
    LET finalTime == Floor(now - s.startTimeRef)
        autoPenalty == AutoPenalty(s.inspectionEnabled, s.inspectionOverMs)
    IN  [saveSolveImmediately(s, finalTime, autoPenalty) EXCEPT
            !.currentTime = 0,
            !.timerState = "idle"]

\* Mutant of stopTimer: the state set at the end is 'stopped'.
stopTimer_stopped(s) ==
    LET c == cancelStopwatch(s)
        finalTime == Floor(now - c.startTimeRef)
        autoPenalty == AutoPenalty(s.inspectionEnabled, s.inspectionOverMs)
    IN  [saveSolveImmediately(c, finalTime, autoPenalty) EXCEPT
            !.currentTime = 0,
            !.timerState = "stopped"]

\* Lines 227-249.
stopTimer(s) ==
    LET c == cancelStopwatch(s)
        finalTime == Floor(now - c.startTimeRef)
        autoPenalty == AutoPenalty(s.inspectionEnabled, s.inspectionOverMs)
    IN  [saveSolveImmediately(c, finalTime, autoPenalty) EXCEPT
            !.currentTime = 0,
            !.timerState = "idle"]

\* Mutant of handleSpaceDown: the loadingRef guard is missing.
handleSpaceDown_noLoadingGuard(s) ==
    IF s.timerStateRef = "idle"
    THEN [s EXCEPT !.timerState = "arming",
                   !.timeouts = @ \cup {now + ARMING_THRESHOLD_MS * Res},
                   !.armingTimeoutRef = now + ARMING_THRESHOLD_MS * Res]
    ELSE IF s.timerStateRef = "inspection" THEN beginSolveFromInspection(s)
    ELSE IF s.timerStateRef = "running" THEN stopTimer(s)
    ELSE s

\* Lines 251-271.
handleSpaceDown(s) ==
    IF s.loadingRef THEN s
    ELSE IF s.timerStateRef = "idle"
    THEN [s EXCEPT !.timerState = "arming",
                   !.timeouts = @ \cup {now + ARMING_THRESHOLD_MS * Res},
                   !.armingTimeoutRef = now + ARMING_THRESHOLD_MS * Res]
    ELSE IF s.timerStateRef = "inspection" THEN beginSolveFromInspection(s)
    ELSE IF s.timerStateRef = "running" THEN stopTimer(s)
    ELSE s

\* Lines 261-265: the arm timer's callback.
armingTimeout(s) ==
    IF s.timerStateRef = "arming" THEN [s EXCEPT !.timerState = "ready"] ELSE s

\* Mutant of handleSpaceUp: a release in arming starts like one in ready.
handleSpaceUp_startsFromArming(s) ==
    IF s.loadingRef THEN s
    ELSE LET c == IF s.armingTimeoutRef # 0
                  THEN [s EXCEPT !.timeouts = @ \ {s.armingTimeoutRef},
                                 !.armingTimeoutRef = 0]
                  ELSE s
         IN  IF s.timerStateRef \in {"arming", "ready"}
             THEN IF s.inspectionEnabled THEN startInspection(c)
                  ELSE startTimer(c)
             ELSE c

\* Mutant of handleSpaceUp: the release in ready ignores inspectionEnabled.
handleSpaceUp_ignoresSetting(s) ==
    IF s.loadingRef THEN s
    ELSE LET c == IF s.armingTimeoutRef # 0
                  THEN [s EXCEPT !.timeouts = @ \ {s.armingTimeoutRef},
                                 !.armingTimeoutRef = 0]
                  ELSE s
         IN  IF s.timerStateRef = "arming" THEN [c EXCEPT !.timerState = "idle"]
             ELSE IF s.timerStateRef = "ready" THEN startTimer(c)
             ELSE c

\* Lines 273-295.
handleSpaceUp(s) ==
    IF s.loadingRef THEN s
    ELSE LET c == IF s.armingTimeoutRef # 0
                  THEN [s EXCEPT !.timeouts = @ \ {s.armingTimeoutRef},
                                 !.armingTimeoutRef = 0]
                  ELSE s
         IN  IF s.timerStateRef = "arming" THEN [c EXCEPT !.timerState = "idle"]
             ELSE IF s.timerStateRef = "ready"
             THEN IF s.inspectionEnabled THEN startInspection(c)
                  ELSE startTimer(c)
             ELSE c

\* Lines 340-351.
handleManualStart(s) ==
    IF s.loading THEN s
    ELSE IF s.timerState = "idle"
    THEN IF s.inspectionEnabled THEN startInspection(s) ELSE startTimer(s)
    ELSE IF s.timerState = "inspection" THEN beginSolveFromInspection(s)
    ELSE IF s.timerState = "running" THEN stopTimer(s)
    ELSE s

\* String(next) of line 72.
String(b) == IF b THEN "true" ELSE "false"

\* Mutant of toggleInspection: the value before the toggle is stored.
toggleInspection_storesPrev(s) ==
    [s EXCEPT !.inspectionEnabled = ~s.inspectionEnabled,
              !.stored = String(s.inspectionEnabled)]

\* Lines 69-75.
toggleInspection(s) ==
    [s EXCEPT !.inspectionEnabled = ~s.inspectionEnabled,
              !.stored = String(~s.inspectionEnabled)]

\* Mutant of stopwatchTick: the start time is not subtracted.
stopwatchTick_absolute(s) ==
    [s EXCEPT !.currentTime = Floor(now),
              !.frames.stopwatch = @ + 1,
              !.animationFrameRef = 1]

\* Lines 179-183: a stopwatch frame.
stopwatchTick(s) ==
    [s EXCEPT !.currentTime = Floor(now - s.startTimeRef),
              !.frames.stopwatch = @ + 1,
              !.animationFrameRef = 1]

\* Mutant of inspectionTick: at 15 s the tick ends the inspection.
inspectionTick_expires(s) ==
    LET elapsed == now - s.inspectionStartRef IN
    IF elapsed >= INSPECTION_MS * Res
    THEN [s EXCEPT !.inspectionMsLeft = 0,
                   !.inspectionOverMs = elapsed - INSPECTION_MS * Res,
                   !.inspectionRafRef = 0,
                   !.timerState = "idle"]
    ELSE [s EXCEPT !.inspectionMsLeft = Max(0, INSPECTION_MS * Res - elapsed),
                   !.inspectionOverMs = 0,
                   !.frames.inspection = @ + 1,
                   !.inspectionRafRef = 1]

\* Mutant of inspectionTick: the remaining time is not clamped at zero.
inspectionTick_unclamped(s) ==
    LET elapsed == now - s.inspectionStartRef IN
    [s EXCEPT !.inspectionMsLeft = INSPECTION_MS * Res - elapsed,
              !.inspectionOverMs = Max(0, elapsed - INSPECTION_MS * Res),
              !.frames.inspection = @ + 1,
              !.inspectionRafRef = 1]

\* Lines 203-214: an inspection frame.
inspectionTick(s) ==
    LET elapsed == now - s.inspectionStartRef IN
    [s EXCEPT !.inspectionMsLeft = Max(0, INSPECTION_MS * Res - elapsed),
              !.inspectionOverMs = Max(0, elapsed - INSPECTION_MS * Res),
              !.frames.inspection = @ + 1,
              !.inspectionRafRef = 1]

\* Mutant of handleUpdateLastSolvePenalty: the penalty is displayed before
\* updateSolve has answered.
handleUpdateLastSolvePenalty_optimistic(s, penalty) ==
    IF s.lastSolve = 0 THEN s
    ELSE [s EXCEPT !.loading = TRUE, !.error = "", !.update = TRUE,
                   !.newPenalty = penalty, !.lastSolvePenalty = penalty]

\* Lines 353-358: handleUpdateLastSolvePenalty up to its await.
handleUpdateLastSolvePenalty(s, penalty) ==
    IF s.lastSolve = 0 THEN s
    ELSE [s EXCEPT !.loading = TRUE, !.error = "", !.update = TRUE,
                   !.newPenalty = penalty]

\* Lines 360-365, 368-370: updateSolve resolved.
updateResolved(s) ==
    [loadStats(s) EXCEPT !.lastSolvePenalty = s.newPenalty,
                         !.update = FALSE, !.loading = FALSE]

\* Lines 366-370: updateSolve rejected.
updateRejected(s) ==
    [s EXCEPT !.error = "Failed to update penalty",
              !.update = FALSE, !.loading = FALSE]

\* Mutant of createSolveResolved: loading is cleared as soon as the solve is
\* saved.
createSolveResolved_clearsLoading(s) ==
    [s EXCEPT !.lastSolve = s.save.id,
              !.lastSolvePenalty = s.save.penalty,
              !.liveStats = [from |-> "save", id |-> s.save.id],
              !.savingMessage = "Saved",
              !.mlScore = 0,
              !.save.phase = "scoreSolve",
              !.loading = FALSE]

\* Lines 121-128: createSolve resolved; scoreSolve is called.  The message
\* of line 124 is written here without its check mark.  The solve of the
\* response is the one just created: it has no score yet.
createSolveResolved(s) ==
    [s EXCEPT !.lastSolve = s.save.id,
              !.lastSolvePenalty = s.save.penalty,
              !.liveStats = [from |-> "save", id |-> s.save.id],
              !.savingMessage = "Saved",
              !.mlScore = 0,
              !.save.phase = "scoreSolve"]

\* Mutant of createSolveRejected: the saving message is left as it is.
createSolveRejected_keepsMessage(s) ==
    [s EXCEPT !.error = "Failed to save solve",
              !.save = NoSave, !.loading = FALSE]

\* Mutant of createSolveRejected: setLoading(false) is not in a finally.
createSolveRejected_staysLoading(s) ==
    [s EXCEPT !.error = "Failed to save solve", !.savingMessage = "",
              !.save = NoSave]

\* Lines 150-155: createSolve rejected.
createSolveRejected(s) ==
    [s EXCEPT !.error = "Failed to save solve", !.savingMessage = "",
              !.save = NoSave, !.loading = FALSE]

\* Lines 129-146: scoreSolve resolved; the statistics are reloaded and
\* loadNewScramble is awaited.
scoreSolveResolved(s) ==
    [loadNewScramble(loadStats(s)) EXCEPT
        !.mlScore = IF s.lastSolve # 0 /\ s.lastSolve = s.save.id
                    THEN s.save.id ELSE @,
        !.save.phase = "getScramble"]

\* Mutant of scoreSolveRejected: the failure ends the save, and no scramble
\* is fetched.
scoreSolveRejected_endsSave(s) ==
    [s EXCEPT !.msgTimeouts = @ \cup {now + SAVED_MESSAGE_MS * Res},
              !.save = NoSave, !.loading = FALSE]

\* Mutant of scoreSolveRejected: the failure is reported like the others.
scoreSolveRejected_reports(s) ==
    [s EXCEPT !.error = "Failed to score solve",
              !.save.phase = "getScramble"]

\* Lines 142-146: scoreSolve rejected; the failure is logged and
\* loadNewScramble is awaited.
scoreSolveRejected(s) ==
    [loadNewScramble(s) EXCEPT !.save.phase = "getScramble"]

\* Lines 148-149, 153-155: the end of a save whose createSolve resolved.
saveDone(s) ==
    [s EXCEPT !.msgTimeouts = @ \cup {now + SAVED_MESSAGE_MS * Res},
              !.save = NoSave, !.loading = FALSE]

\* Line 149: the callback of the message timer.
clearSavingMessage(s) == [s EXCEPT !.savingMessage = ""]

\* Mutant of handleRevealOptimalSolution: the guard of line 395 is missing.
handleRevealOptimalSolution_unguarded(s, ok) ==
    IF ~ok THEN s
    ELSE IF s.scrambleState.len = 0 \/ s.scrambleState.len # STATE_LENGTH
    THEN [s EXCEPT !.error =
             "Missing cube state for this scramble. (Expected 54 chars.)"]
    ELSE [s EXCEPT !.solutionLoading = TRUE, !.error = "",
                   !.solution = s.scrambleState]

\* Mutant of handleRevealOptimalSolution: the state is sent unvalidated.
handleRevealOptimalSolution_unchecked(s, ok) ==
    IF s.timerState = "running" \/ s.loading \/ s.solutionLoading THEN s
    ELSE IF ~ok THEN s
    ELSE [s EXCEPT !.solutionLoading = TRUE, !.error = "",
                   !.solution = s.scrambleState]

\* Lines 394-410: handleRevealOptimalSolution up to its await; ok is the
\* answer to window.confirm.
handleRevealOptimalSolution(s, ok) ==
    IF s.timerState = "running" \/ s.loading \/ s.solutionLoading THEN s
    ELSE IF ~ok THEN s
    ELSE IF s.scrambleState.len = 0 \/ s.scrambleState.len # STATE_LENGTH
    THEN [s EXCEPT !.error =
             "Missing cube state for this scramble. (Expected 54 chars.)"]
    ELSE [s EXCEPT !.solutionLoading = TRUE, !.error = "",
                   !.solution = s.scrambleState]

\* Lines 411-412, 415-417: getOptimalSolution resolved.
optimalSolutionResolved(s) ==
    [s EXCEPT !.optimalSolutionMoves = s.solution.of,
              !.solution = NoRequest, !.solutionLoading = FALSE]

\* Lines 413-417: getOptimalSolution rejected.
optimalSolutionRejected(s) ==
    [s EXCEPT !.error = "Failed to compute optimal solution.",
              !.solution = NoRequest, !.solutionLoading = FALSE]

\* Lines 373-375: handleScoreSolve up to its await.
handleScoreSolve(s) == [s EXCEPT !.scoring = Append(@, s.lastSolve)]

\* Mutant of handleScoreSolveResolved: the score is merged into lastSolve
\* whatever its id.
handleScoreSolveResolved_anySolve(s, solveId) ==
    [loadStats(s) EXCEPT !.mlScore = IF s.lastSolve # 0 THEN solveId ELSE @]

\* Lines 376-388: the scoreSolve call of handleScoreSolve resolved.
handleScoreSolveResolved(s, solveId) ==
    [loadStats(s) EXCEPT
        !.mlScore = IF s.lastSolve # 0 /\ s.lastSolve = solveId
                    THEN solveId ELSE @]

\* Lines 389-391: the scoreSolve call of handleScoreSolve rejected.
handleScoreSolveRejected(s) == [s EXCEPT !.error = "Failed to score solve"]

\* Lines 322-338: the cleanup run at unmount.
unmountCleanup(s) ==
    LET c == stopInspection(cancelStopwatch(s)) IN
    [c EXCEPT !.timeouts = IF c.armingTimeoutRef # 0
                           THEN @ \ {c.armingTimeoutRef} ELSE @,
              !.armingTimeoutRef = 0,
              !.mounted = FALSE]

\* Lines 16-66, 99-102: the page after its first render and mount effects,
\* with item st in localStorage and n createSolve calls made so far.
mount(st, n) ==
    LET enabled == IF st # NoItem THEN st = "true" ELSE TRUE IN
    [ timerState |-> "idle", currentTime |-> 0, lastSolve |-> 0,
      inspectionEnabled |-> enabled, loading |-> FALSE,
      inspectionMsLeft |-> INSPECTION_MS * Res, inspectionOverMs |-> 0,
      startTimeRef |-> 0, animationFrameRef |-> 0, armingTimeoutRef |-> 0,
      inspectionStartRef |-> 0, inspectionRafRef |-> 0,
      timerStateRef |-> "idle", loadingRef |-> FALSE,
      frames |-> [stopwatch |-> 0, inspection |-> 0], timeouts |-> {},
      save |-> NoSave, update |-> FALSE, nCreate |-> n, stored |-> st,
      mounted |-> TRUE, scramble |-> 0, scrambleState |-> NoState,
      lastSolvePenalty |-> "OK", error |-> "", savingMessage |-> "",
      optimalSolutionMoves |-> 0, solutionLoading |-> FALSE,
      liveStats |-> NoStats, fetches |-> << RequestEpoch(n) >>,
      statsPending |-> 1, solution |-> NoRequest, newPenalty |-> "OK",
      msgTimeouts |-> {}, scrambleRequest |-> 0, mlScore |-> 0,
      scoring |-> << >> ]

\* ---------------------------------------------------- the App component
\* src/unnamed/part_001, lines 136-330.  A token or a user is 0 for null,
\* else the account it belongs to.  `me` holds the fetchUser calls in flight,
\* in the order of the calls: for each, the token its closure sent (line 161).
\* `call` is the call in flight behind isLoading; cubeState and solves
\* (lines 140-141) take no part in what is rendered and are left out.
Accounts == 1..MaxAccounts

\* Lines 137-142: the component at construction, st in localStorage.
AppInitial(st) ==
    [ currentPage |-> "login", token |-> 0, user |-> 0, isLoading |-> FALSE,
      storedToken |-> st, call |-> "none", me |-> << >>, nLogin |-> 0 ]

\* Lines 151-156: the effect that runs after a commit that changed token.
tokenEffect(a) ==
    IF a.token # 0
    THEN [a EXCEPT !.me = Append(@, a.token), !.currentPage = "home"]
    ELSE a

\* setToken(t) and the commit that follows it.
setToken(a, t) ==
    IF t # a.token THEN tokenEffect([a EXCEPT !.token = t]) ELSE a

\* Lines 144-149: the first commit and its mount effect.
AppMount(st) ==
    IF st # 0 THEN setToken(AppInitial(st), st) ELSE AppInitial(st)

\* Lines 188-189: handleLogin up to its await.
handleLogin(a) ==
    [a EXCEPT !.isLoading = TRUE, !.call = "login", !.nLogin = @ + 1]

\* Lines 195-200 and 207-208: the login response is ok, for account t.
loginResolved(a, t) ==
    setToken([a EXCEPT !.storedToken = t, !.user = t, !.currentPage = "home",
                       !.isLoading = FALSE, !.call = "none"], t)

\* Lines 201-208: the login response is not ok, or the call failed.
loginRefused(a) == [a EXCEPT !.isLoading = FALSE, !.call = "none"]

\* Lines 212-213: handleSignup up to its await.
handleSignup(a) == [a EXCEPT !.isLoading = TRUE, !.call = "signup"]

\* Lines 221-223 and 229-230: the signup response is ok.
signupResolved(a) ==
    [a EXCEPT !.currentPage = "login", !.isLoading = FALSE, !.call = "none"]

\* Lines 224-230: the signup response is not ok, or the call failed.
signupRefused(a) == [a EXCEPT !.isLoading = FALSE, !.call = "none"]

\* Lines 234-235: handleSolve up to its await.
handleSolve(a) == [a EXCEPT !.isLoading = TRUE, !.call = "solve"]

\* Lines 244-254: the solve call settled, in any way.
solveSettled(a) == [a EXCEPT !.isLoading = FALSE, !.call = "none"]

\* Lines 258-263.
handleLogout(a) ==
    setToken([a EXCEPT !.storedToken = 0, !.user = 0, !.currentPage = "login"],
             0)

\* Lines 163-165: the response to the i-th fetchUser call is ok; the user
\* it carries is the one of the token that was sent.
fetchUserResolved(a, i) == [a EXCEPT !.user = a.me[i], !.me = Without(@, i)]

\* Lines 166-168: the response to the i-th fetchUser call is not ok.
fetchUserRefused(a, i) == handleLogout([a EXCEPT !.me = Without(@, i)])

\* Lines 169-171: the i-th fetchUser call failed.
fetchUserFailed(a, i) == [a EXCEPT !.me = Without(@, i)]

\* Lines 265-271 and 322-326: the screen that is rendered.
Rendered(a) ==
    IF a.token = 0
    THEN IF a.currentPage = "login" THEN "LoginPage" ELSE "SignupPage"
    ELSE IF a.currentPage = "home" THEN "HomePage" ELSE "SolvesPage"

\* ------------------------------------------------- the SignupPage component
\* src/frontend/src/routes/Auth/SignupPage.tsx.  A text is the sequence of
\* its characters.  name, email and password (lines 14-16) are only passed
\* on to signup and are left out.  `runs` holds the handleSubmit calls that
\* are waiting at an await, in the order of the submits: for each, the await
\* it is at and what its closure holds of skillMode and
\* selfAvgSecondsNumber.  `navigated` is the history of the navigate calls.
\* Button and Input are not part of the sources: a submit is possible while
\* an earlier one is pending, and the inputs accept any text.
DigitChars == {"0", "1", "2", "3", "4", "5", "6", "7", "8", "9"}

DigitValue(c) ==
    CASE c = "0" -> 0 [] c = "1" -> 1 [] c = "2" -> 2 [] c = "3" -> 3
      [] c = "4" -> 4 [] c = "5" -> 5 [] c = "6" -> 6 [] c = "7" -> 7
      [] c = "8" -> 8 [] c = "9" -> 9

RECURSIVE trimStart(_)
trimStart(t) == IF t # << >> /\ Head(t) = " " THEN trimStart(Tail(t)) ELSE t

RECURSIVE trimEnd(_)
trimEnd(t) ==
    IF t # << >> /\ t[Len(t)] = " " THEN trimEnd(SubSeq(t, 1, Len(t) - 1))
    ELSE t

\* String.prototype.trim.
trim(t) == trimEnd(trimStart(t))

\* The number written by a sequence of digits.
RECURSIVE DigitsValue(_)
DigitsValue(d) ==
    IF d = << >> THEN 0
    ELSE 10 * DigitsValue(SubSeq(d, 1, Len(d) - 1)) + DigitValue(d[Len(d)])

RECURSIVE PowerOfTen(_)
PowerOfTen(n) == IF n = 0 THEN 1 ELSE 10 * PowerOfTen(n - 1)

NotANumber == [kind |-> "NaN", num |-> 0, den |-> 1]

NullNumber == [kind |-> "null", num |-> 0, den |-> 1]

\* Number(text) for a text of digits, signs, points, spaces and letters: the
\* text is trimmed, the empty text is 0, a signed decimal literal is its
\* value num/den, anything else is NaN.
Number(t) ==
    LET u == trim(t)
        signed == u # << >> /\ Head(u) \in {"-", "+"}
        body == IF signed THEN Tail(u) ELSE u
        points == { i \in DOMAIN body : body[i] = "." }
        digits == SelectSeq(body, LAMBDA c : c \in DigitChars)
        decimals == IF points = {} THEN 0
                    ELSE Len(body) - (CHOOSE i \in points : TRUE)
        magnitude == DigitsValue(digits)
    IN  IF u = << >> THEN [kind |-> "number", num |-> 0, den |-> 1]
        ELSE IF /\ \A i \in DOMAIN body : body[i] \in DigitChars \cup {"."}
                /\ Cardinality(points) <= 1
                /\ digits # << >>
        THEN [kind |-> "number",
              num |-> IF Head(u) = "-" THEN 0 - magnitude ELSE magnitude,
              den |-> PowerOfTen(decimals)]
        ELSE NotANumber

\* Lines 27-31: Number.isFinite fails for NaN only, on these texts.
selfAvgSecondsNumber(s) ==
    LET x == Number(s.selfAvgSeconds)
    IN  IF x.kind # "number" THEN NullNumber ELSE x

\* The value null of validateSkillInputs.
Null == "null"

\* Lines 33-45.
validateSkillInputs(s) ==
    IF s.skillMode = "wca"
    THEN IF trim(s.wcaId) = << >>
         THEN "Please enter your WCA ID (example: 2019DOEJ01)."
         ELSE IF Len(trim(s.wcaId)) < WCA_ID_MIN_LENGTH
         THEN "That WCA ID looks too short."
         ELSE Null
    ELSE IF s.skillMode = "self"
    THEN LET x == selfAvgSecondsNumber(s) IN
         IF trim(s.selfAvgSeconds) = << >>
         THEN "Please enter your average time in seconds."
         ELSE IF x.kind = "null"
         THEN "Average must be a number (in seconds)."
         ELSE IF x.num <= 0
         THEN "Average must be greater than 0."
         ELSE IF x.num > MAX_AVERAGE_SECONDS * x.den
         THEN "That average seems too high. Enter seconds (example: 18.5)."
         ELSE Null
    ELSE Null

\* Lines 14-22: the component at construction.
SignupInitial ==
    [ skillMode |-> "later", wcaId |-> << >>, selfAvgSeconds |-> << >>,
      error |-> "", loading |-> FALSE, runs |-> << >>, navigated |-> << >>,
      nSubmit |-> 0 ]

\* Lines 47-57, with the skill inputs validated after loading was set.
handleSubmit_validatesLate(s) ==
    [s EXCEPT !.error = IF validateSkillInputs(s) # Null
                        THEN validateSkillInputs(s) ELSE "",
              !.loading = TRUE,
              !.runs = IF validateSkillInputs(s) # Null THEN @
                       ELSE Append(@, [at |-> "signup",
                                       skillMode |-> s.skillMode,
                                       average |-> selfAvgSecondsNumber(s).kind # "null"]),
              !.nSubmit = IF validateSkillInputs(s) # Null THEN @ ELSE @ + 1]

\* Lines 47-61: handleSubmit up to its first await.
handleSubmit(s) ==
    LET skillErr == validateSkillInputs(s) IN
    IF skillErr # Null
    THEN [s EXCEPT !.error = skillErr]
    ELSE [s EXCEPT !.error = "", !.loading = TRUE,
                   !.runs = Append(@, [at |-> "signup",
                                       skillMode |-> s.skillMode,
                                       average |-> selfAvgSecondsNumber(s).kind # "null"]),
                   !.nSubmit = @ + 1]

\* Lines 91-93 after a navigate call to `to`: the i-th run has ended.
navigate(s, i, to) ==
    [s EXCEPT !.navigated = Append(@, to), !.runs = Without(@, i),
              !.loading = FALSE]

\* Lines 77-83, with the failure of the skill setup call left on the page.
skillSetupRejected_staysPut(s, i) ==
    [s EXCEPT !.runs = Without(@, i), !.loading = FALSE]

\* Lines 61-83: the signup call of the i-th run resolved.
submitSignupResolved(s, i) ==
    IF s.runs[i].skillMode = "wca"
    THEN [s EXCEPT !.runs[i].at = "linkWca"]
    ELSE IF s.runs[i].skillMode = "self" /\ s.runs[i].average
    THEN [s EXCEPT !.runs[i].at = "setSelfReportedAverage"]
    ELSE navigate(s, i, "/onboarding")

\* Lines 84-93: the signup call of the i-th run rejected, with the message
\* msg in the response ("" for none).
submitSignupRejected(s, i, msg) ==
    [s EXCEPT !.error = IF msg # "" THEN msg
                        ELSE "Signup failed. Please try again.",
              !.runs = Without(@, i), !.loading = FALSE]

\* Lines 67-69: the linkWca call of the i-th run resolved.
linkWcaResolved(s, i) == navigate(s, i, "/dashboard")

\* Lines 73-75: the setSelfReportedAverage call of the i-th run resolved.
setSelfReportedAverageResolved(s, i) == navigate(s, i, "/dashboard")

\* Lines 77-83: the skill setup call of the i-th run rejected.
skillSetupRejected(s, i) == navigate(s, i, "/onboarding")

\* ------------------------------------------------------------------- state
\* The page just mounted, in scope sc.
Start(sc) ==
    \E st \in StoredValues :
        LET m == mount(st, 0) IN
        /\ scope = sc
        /\ timerState = m.timerState
        /\ currentTime = m.currentTime
        /\ lastSolve = m.lastSolve
        /\ inspectionEnabled = m.inspectionEnabled
        /\ loading = m.loading
        /\ inspectionMsLeft = m.inspectionMsLeft
        /\ inspectionOverMs = m.inspectionOverMs
        /\ startTimeRef = m.startTimeRef
        /\ animationFrameRef = m.animationFrameRef
        /\ armingTimeoutRef = m.armingTimeoutRef
        /\ inspectionStartRef = m.inspectionStartRef
        /\ inspectionRafRef = m.inspectionRafRef
        /\ timerStateRef = m.timerStateRef
        /\ loadingRef = m.loadingRef
        /\ frames = m.frames
        /\ timeouts = m.timeouts
        /\ save = m.save
        /\ update = m.update
        /\ nCreate = m.nCreate
        /\ stored = m.stored
        /\ mounted = m.mounted
        /\ scramble = m.scramble
        /\ scrambleState = m.scrambleState
        /\ lastSolvePenalty = m.lastSolvePenalty
        /\ error = m.error
        /\ savingMessage = m.savingMessage
        /\ optimalSolutionMoves = m.optimalSolutionMoves
        /\ solutionLoading = m.solutionLoading
        /\ liveStats = m.liveStats
        /\ fetches = m.fetches
        /\ statsPending = m.statsPending
        /\ solution = m.solution
        /\ newPenalty = m.newPenalty
        /\ msgTimeouts = m.msgTimeouts
        /\ scrambleRequest = m.scrambleRequest
        /\ mlScore = m.mlScore
        /\ scoring = m.scoring
        /\ enabledAt = [inspection |-> FALSE, timing |-> FALSE]
        /\ app \in { AppMount(t) :
                        t \in IF sc = "app" THEN {0} \cup Accounts ELSE {0} }
        /\ signup = SignupInitial
        /\ now = 0
        /\ spaceHeld = FALSE
        /\ event = "Init"
        /\ prevTimerState = "idle"

Init == Start("timer")

InitLive == Start("live")

InitLife == Start("life")

InitSave == Start("save")

InitSolution == Start("solution")

InitCalls == Start("calls")

InitOutcome == Start("outcome")

InitScramble == Start("scramble")

InitScore == Start("score")

InitPreference == Start("preference")

InitApp == Start("app") /\ stored = NoItem

InitSignup == Start("signup") /\ stored = NoItem

\* ----------------------------------------------------------------- actions
\* A new attempt is started only while fewer than MaxSolves solves were sent.
MayStart ==
    timerState = "idle" =>
        nCreate < (IF scope \in {"save", "solution", "calls", "scramble"}
                   THEN MaxPageSolves ELSE MaxSolves)

\* A getLiveStats call is started only while fewer than MaxStats are in
\* flight, in the specifications that record the calls in flight.
MayLoadStats == "statsPending" \in Tracked[scope] => statsPending < MaxStats

\* Lines 299-304: keydown of the space key (a press, or an auto-repeat).
KeyDown ==
    /\ mounted
    /\ MayStart
    /\ Becomes(handleSpaceDown(Page), "KeyDown")
    /\ spaceHeld' = TRUE
    /\ UNCHANGED now

\* Lines 306-311: keyup of the space key.
KeyUp ==
    /\ mounted
    /\ spaceHeld
    /\ Becomes(handleSpaceUp(Page), "KeyUp")
    /\ spaceHeld' = FALSE
    /\ UNCHANGED now

\* Lines 261-265: an arm timer whose delay has passed fires.
ArmingTimeoutFires ==
    \E d \in timeouts :
        /\ now >= d
        /\ Becomes(armingTimeout([Page EXCEPT !.timeouts = @ \ {d}]), "ArmingTimeoutFires")
        /\ UNCHANGED << now, spaceHeld >>

\* Lines 535-542: a click on Start/Stop (the button is disabled by loading).
ClickStartStop ==
    /\ mounted
    /\ ~loading
    /\ MayStart
    /\ Becomes(handleManualStart(Page), "ClickStartStop")
    /\ UNCHANGED << now, spaceHeld >>

\* Mutant of ClickToggleInspection: the button is not disabled while running.
ClickToggleInspection_whileRunning ==
    /\ mounted
    /\ Becomes(toggleInspection(Page), "ClickToggleInspection")
    /\ UNCHANGED << now, spaceHeld >>

\* Lines 463-469: a click on the inspection toggle (disabled while running).
ClickToggleInspection ==
    /\ mounted
    /\ timerState # "running"
    /\ Becomes(toggleInspection(Page), "ClickToggleInspection")
    /\ UNCHANGED << now, spaceHeld >>

\* Lines 546, 558-578: a click on a penalty button of the last solve card.
ClickPenalty ==
    /\ mounted
    /\ lastSolve # 0
    /\ ~loading
    /\ \E p \in Penalties :
           Becomes(handleUpdateLastSolvePenalty(Page, p), "ClickPenalty")
    /\ UNCHANGED << now, spaceHeld >>

StopwatchFrame ==
    /\ frames.stopwatch > 0
    /\ Becomes(stopwatchTick([Page EXCEPT !.frames.stopwatch = @ - 1]), "StopwatchFrame")
    /\ UNCHANGED << now, spaceHeld >>

InspectionFrame ==
    /\ frames.inspection > 0
    /\ Becomes(inspectionTick([Page EXCEPT !.frames.inspection = @ - 1]), "InspectionFrame")
    /\ UNCHANGED << now, spaceHeld >>

CreateSolveResolves ==
    /\ save.phase = "createSolve"
    /\ Becomes(createSolveResolved(Page), "CreateSolveResolves")
    /\ UNCHANGED << now, spaceHeld >>

CreateSolveRejects ==
    /\ save.phase = "createSolve"
    /\ Becomes(createSolveRejected(Page), "CreateSolveRejects")
    /\ UNCHANGED << now, spaceHeld >>

ScoreSolveResolves ==
    /\ save.phase = "scoreSolve"
    /\ MayLoadStats
    /\ Becomes(scoreSolveResolved(Page), "ScoreSolveResolves")
    /\ UNCHANGED << now, spaceHeld >>

ScoreSolveRejects ==
    /\ save.phase = "scoreSolve"
    /\ Becomes(scoreSolveRejected(Page), "ScoreSolveRejects")
    /\ UNCHANGED << now, spaceHeld >>

\* The getScramble call awaited by a save resolves.
GetScrambleResolves ==
    /\ save.phase = "getScramble"
    /\ \E r \in Responses :
           Becomes([saveDone(loadNewScrambleResolved(Page, r)) EXCEPT
                       !.scrambleRequest = RequestEpoch(save.id)],
                   "GetScrambleResolves")
    /\ UNCHANGED << now, spaceHeld >>

\* The getScramble call awaited by a save rejects.
GetScrambleRejects ==
    /\ save.phase = "getScramble"
    /\ Becomes(saveDone(loadNewScrambleRejected(Page)), "GetScrambleRejects")
    /\ UNCHANGED << now, spaceHeld >>

UpdateSolveResolves ==
    /\ update
    /\ MayLoadStats
    /\ Becomes(updateResolved(Page), "UpdateSolveResolves")
    /\ UNCHANGED << now, spaceHeld >>

UpdateSolveRejects ==
    /\ update
    /\ Becomes(updateRejected(Page), "UpdateSolveRejects")
    /\ UNCHANGED << now, spaceHeld >>

\* Lines 494-500: a click on New Scramble.
ClickNewScramble ==
    /\ mounted
    /\ ~(timerState = "running" \/ loading \/ solutionLoading)
    /\ Len(fetches) < MaxFetches
    /\ Becomes([loadNewScramble(Page) EXCEPT
                    !.fetches = Append(@, RequestEpoch(nCreate))],
               "ClickNewScramble")
    /\ UNCHANGED << now, spaceHeld >>

\* A getScramble call made by the mount or by New Scramble resolves.
NewScrambleResolves ==
    /\ \E i \in 1..Len(fetches), r \in Responses :
           Becomes([loadNewScrambleResolved(Page, r) EXCEPT
                       !.fetches = Without(@, i),
                       !.scrambleRequest = fetches[i]],
                   "NewScrambleResolves")
    /\ UNCHANGED << now, spaceHeld >>

\* A getScramble call made by the mount or by New Scramble rejects.
NewScrambleRejects ==
    /\ \E i \in 1..Len(fetches) :
           Becomes([loadNewScrambleRejected(Page) EXCEPT !.fetches = Without(@, i)],
                   "NewScrambleRejects")
    /\ UNCHANGED << now, spaceHeld >>

\* Lines 640-646: a click on Refresh (the button is disabled by loading).
ClickRefreshStats ==
    /\ mounted
    /\ ~loading
    /\ MayLoadStats
    /\ Becomes(loadStats(Page), "ClickRefreshStats")
    /\ UNCHANGED << now, spaceHeld >>

GetLiveStatsResolves ==
    /\ statsPending > 0
    /\ Becomes(loadStatsResolved(Page), "GetLiveStatsResolves")
    /\ UNCHANGED << now, spaceHeld >>

GetLiveStatsRejects ==
    /\ statsPending > 0
    /\ Becomes(loadStatsRejected(Page), "GetLiveStatsRejects")
    /\ UNCHANGED << now, spaceHeld >>

\* Lines 502-508: a click on Reveal Optimal Solution, confirmed.
ClickRevealConfirmed ==
    /\ mounted
    /\ ~(timerState = "running" \/ loading \/ solutionLoading)
    /\ Becomes(handleRevealOptimalSolution(Page, TRUE), "ClickRevealConfirmed")
    /\ UNCHANGED << now, spaceHeld >>

\* Lines 502-508: a click on Reveal Optimal Solution, declined.
ClickRevealDeclined ==
    /\ mounted
    /\ ~(timerState = "running" \/ loading \/ solutionLoading)
    /\ Becomes(handleRevealOptimalSolution(Page, FALSE), "ClickRevealDeclined")
    /\ UNCHANGED << now, spaceHeld >>

GetOptimalSolutionResolves ==
    /\ solution # NoRequest
    /\ Becomes(optimalSolutionResolved(Page), "GetOptimalSolutionResolves")
    /\ UNCHANGED << now, spaceHeld >>

GetOptimalSolutionRejects ==
    /\ solution # NoRequest
    /\ Becomes(optimalSolutionRejected(Page), "GetOptimalSolutionRejects")
    /\ UNCHANGED << now, spaceHeld >>

\* Lines 621-630: a click on Score This Solve (the button is rendered for a
\* last solve without score, and disabled by loading).
ClickScoreSolve ==
    /\ mounted
    /\ lastSolve # 0
    /\ mlScore = 0
    /\ ~loading
    /\ Len(scoring) < MaxScores
    /\ Becomes(handleScoreSolve(Page), "ClickScoreSolve")
    /\ UNCHANGED << now, spaceHeld >>

\* A scoreSolve call of handleScoreSolve resolves.
HandleScoreSolveResolves ==
    /\ \E i \in 1..Len(scoring) :
           Becomes(handleScoreSolveResolved([Page EXCEPT !.scoring = Without(@, i)],
                                            scoring[i]),
                   "HandleScoreSolveResolves")
    /\ UNCHANGED << now, spaceHeld >>

\* A scoreSolve call of handleScoreSolve rejects.
HandleScoreSolveRejects ==
    /\ \E i \in 1..Len(scoring) :
           Becomes(handleScoreSolveRejected([Page EXCEPT !.scoring = Without(@, i)]),
                   "HandleScoreSolveRejects")
    /\ UNCHANGED << now, spaceHeld >>

\* Line 149: a message timer whose delay has passed fires.
SavingMessageTimeoutFires ==
    \E d \in msgTimeouts :
        /\ now >= d
        /\ Becomes(clearSavingMessage([Page EXCEPT !.msgTimeouts = @ \ {d}]),
                   "SavingMessageTimeoutFires")
        /\ UNCHANGED << now, spaceHeld >>

\* The page is torn down: the router leaves it.
Unmount ==
    /\ mounted
    /\ Assign(unmountCleanup(Page), "Unmount")
    /\ UNCHANGED << now, spaceHeld >>

\* The browser loads the page anew: the timers and calls of the page before
\* are gone with it, localStorage stays.
Reload ==
    /\ Assign(mount(stored, nCreate), "Reload")
    /\ UNCHANGED << now, spaceHeld >>

\* The instants of the clock in this scope.
Clock ==
    IF scope = "timer" THEN Instants
    ELSE IF scope = "preference" THEN PreferenceInstants
    ELSE IF scope \in {"solution", "calls", "outcome", "scramble", "score"}
    THEN CallInstants
    ELSE PageInstants

\* Time passes.
Advance ==
    /\ \E t \in Clock : t > now /\ now' = t
    /\ event' = "Advance"
    /\ prevTimerState' = timerState
    /\ UNCHANGED << timerVars, pageVars, otherVars, spaceHeld, scope >>

Next ==
    \/ KeyDown
    \/ KeyUp
    \/ ArmingTimeoutFires
    \/ ClickStartStop
    \/ ClickToggleInspection
    \/ ClickPenalty
    \/ StopwatchFrame
    \/ InspectionFrame
    \/ CreateSolveResolves
    \/ CreateSolveRejects
    \/ ScoreSolveResolves
    \/ ScoreSolveRejects
    \/ GetScrambleResolves
    \/ GetScrambleRejects
    \/ UpdateSolveResolves
    \/ UpdateSolveRejects
    \/ Advance

Spec == Init /\ [][Next]_vars

\* The steps of the page's life: it is torn down and loaded anew.
NextLife ==
    \/ Next
    \/ SavingMessageTimeoutFires
    \/ Unmount
    \/ Reload

LifeSpec == InitLife /\ [][NextLife]_vars

NextSave ==
    \/ Next
    \/ SavingMessageTimeoutFires
    \/ ClickRefreshStats
    \/ GetLiveStatsResolves
    \/ GetLiveStatsRejects

SaveSpec == InitSave /\ [][NextSave]_vars

NextSolution ==
    \/ Next
    \/ ClickNewScramble
    \/ NewScrambleResolves
    \/ NewScrambleRejects
    \/ ClickRevealConfirmed
    \/ ClickRevealDeclined
    \/ GetOptimalSolutionResolves
    \/ GetOptimalSolutionRejects

SolutionSpec == InitSolution /\ [][NextSolution]_vars

NextCalls ==
    \/ NextSolution
    \/ ClickRefreshStats
    \/ GetLiveStatsResolves
    \/ GetLiveStatsRejects

CallsSpec == InitCalls /\ [][NextCalls]_vars

OutcomeSpec == InitOutcome /\ [][Next]_vars

NextScramble ==
    \/ Next
    \/ ClickNewScramble
    \/ NewScrambleResolves
    \/ NewScrambleRejects

ScrambleSpec == InitScramble /\ [][NextScramble]_vars

NextScore ==
    \/ Next
    \/ ClickScoreSolve
    \/ HandleScoreSolveResolves
    \/ HandleScoreSolveRejects

ScoreSpec == InitScore /\ [][NextScore]_vars

PreferenceSpec == InitPreference /\ [][Next]_vars

\* A pending collaborator call settles sooner or later, one way or the other.
Settling ==
    /\ WF_vars(CreateSolveResolves \/ CreateSolveRejects)
    /\ WF_vars(ScoreSolveResolves \/ ScoreSolveRejects)
    /\ WF_vars(GetScrambleResolves \/ GetScrambleRejects)
    /\ WF_vars(UpdateSolveResolves \/ UpdateSolveRejects)

LiveSpec == InitLive /\ [][Next]_vars /\ Settling

TypeOK ==
    /\ timerState \in TimerStates
    /\ timerStateRef = timerState
    /\ loadingRef = loading
    /\ frames \in [stopwatch : 0..1, inspection : 0..1]
    /\ nCreate \in 0..MaxSolves
    /\ stored \in StoredValues
    /\ Len(fetches) \in 0..MaxFetches
    /\ Len(scoring) \in 0..MaxScores
    /\ mlScore \in 0..MaxSolves
    /\ statsPending \in 0..MaxStats
    /\ scope \in DOMAIN Tracked

\* ------------------------------------------------------------------ claims
idle == "idle"
arming == "arming"
ready == "ready"
inspection == "inspection"
running == "running"

\* The transition table of the timer state machine, as (from, to, events).
TableStep ==
    \/ timerState = idle /\ timerState' = arming /\ event' = "KeyDown"
    \/ timerState = arming /\ timerState' = idle /\ event' = "KeyUp"
    \/ timerState = arming /\ timerState' = ready
                           /\ event' = "ArmingTimeoutFires"
    \/ timerState = ready /\ timerState' \in {inspection, running}
                          /\ event' = "KeyUp"
    \/ timerState = inspection /\ timerState' = running
                               /\ event' \in {"KeyDown", "ClickStartStop"}
    \/ timerState = running /\ timerState' = idle
                            /\ event' \in {"KeyDown", "ClickStartStop"}

\* A click on Start/Stop in idle starts the attempt at once.
ManualStartStep ==
    /\ timerState = idle
    /\ event' = "ClickStartStop"
    /\ timerState' = IF inspectionEnabled THEN inspection ELSE running

\* C1 as stated: every change of timerState is a transition of the table, so
\* no event moves idle to inspection or running.
C1_OnlyTableTransitions ==
    [][timerState' # timerState => TableStep]_vars

\* C1 amended: every change of timerState is a transition of the table or the
\* manual start of handleManualStart (idle to inspection when inspection is
\* enabled, idle to running when it is not, on a click on Start/Stop).
C1_TableOrManualStart ==
    [][timerState' # timerState => (TableStep \/ ManualStartStep)]_vars

\* C1 witness: the timer runs at instant 0, where no arm timer can have fired.
C1_ManualStartReached ==
    /\ timerState = running
    /\ event = "ClickStartStop"
    /\ prevTimerState = idle
    /\ now = 0

\* C2 as stated: a release in arming returns to idle, and the arm timer moves
\* arming to ready only while the key is still held.
C2_ReadyOnlyWhileHeld ==
    [][/\ (event' = "KeyUp" /\ timerState = arming) => timerState' = idle
       /\ (timerState = arming /\ timerState' = ready) => spaceHeld]_vars

\* C3 as stated: the arm timer firing in arming gives ready, and the release
\* in ready gives inspection when inspection is enabled, running when not.
C3_ReleaseAlwaysStarts ==
    [][/\ (event' = "ArmingTimeoutFires" /\ timerState = arming)
            => timerState' = ready
       /\ (event' = "KeyUp" /\ timerState = ready)
            => timerState' = IF inspectionEnabled THEN inspection
                             ELSE running]_vars

\* C3 amended: the arm timer firing in arming gives ready; the release in
\* ready gives inspection (enabled) or running (disabled) when loading is
\* false, and is ignored, leaving ready, when loading is true.
C3_ReleaseStartsUnlessLoading ==
    [][/\ (event' = "ArmingTimeoutFires" /\ timerState = arming)
            => timerState' = ready
       /\ (event' = "KeyUp" /\ timerState = ready /\ ~loading)
            => timerState' = IF inspectionEnabled THEN inspection
                             ELSE running
       /\ (event' = "KeyUp" /\ timerState = ready /\ loading)
            => timerState' = ready]_vars

\* C3 witness: a release in ready, inspection disabled, has started the timer.
C3_ReleaseStartedRunning ==
    /\ event = "KeyUp"
    /\ prevTimerState = ready
    /\ timerState = running
    /\ ~inspectionEnabled

\* The auto-penalty law, on the overrun in clock units.
PenaltyLaw(enabled, over) ==
    IF ~enabled \/ over = 0 THEN "OK"
    ELSE IF over <= LATE_PLUS2_MS * Res THEN "+2"
    ELSE "DNF"

\* C4: the penalty handed to the save is the law applied to inspectionOverMs
\* and inspectionEnabled as they are at the stop.
C4_PenaltyIsLaw ==
    [][nCreate' # nCreate =>
         /\ save'.phase = "createSolve"
         /\ inspectionOverMs >= 0
         /\ save'.penalty = PenaltyLaw(inspectionEnabled, inspectionOverMs)]_vars

\* C4 witness: a save with "+2" for an overrun of exactly 2000 ms.
C4_Plus2AtBoundary ==
    /\ save.phase = "createSolve"
    /\ save.penalty = "+2"
    /\ inspectionOverMs = LATE_PLUS2_MS * Res

\* C5 as stated: with inspection enabled, the penalty of the save is the law
\* applied to the overrun at the instant timing started.
C5_PenaltyFromOverrunAtPress ==
    [][(nCreate' # nCreate /\ inspectionEnabled) =>
         save'.penalty =
            PenaltyLaw(TRUE, Max(0, startTimeRef - inspectionStartRef
                                      - INSPECTION_MS * Res))]_vars

\* C6 as stated: while loading is set, no key down, key up, Start/Stop click
\* or arm timer changes timerState or the scheduled clock loops.
C6_HandlersNoOpWhileLoading ==
    [][(loading /\ event' \in {"KeyDown", "KeyUp", "ClickStartStop",
                               "ArmingTimeoutFires"}) =>
         UNCHANGED << timerState, frames, animationFrameRef,
                      inspectionRafRef >>]_vars

\* C7: createSolve is called in a step exactly when that step moves running
\* to idle, and once in it.
C7_OneCreatePerStop ==
    [][/\ (nCreate' # nCreate) <=> (timerState = running /\ timerState' = idle)
       /\ nCreate' \in {nCreate, nCreate + 1}]_vars

\* C7 witness: a second timing was stopped by a key down and saved.
C7_SecondStopSaved ==
    /\ event = "KeyDown"
    /\ prevTimerState = running
    /\ timerState = idle
    /\ nCreate = 2

\* C8: the elapsedMs of the save is floor(now - startTimeRef) at the stop, an
\* integer >= 0 and >= the time displayed before the stop, and it does not
\* change while the save is in flight.
C8_SavedElapsedIsFloorAtStop ==
    [][/\ (timerState = running /\ timerState' = idle) =>
            /\ save'.timeMs \in Nat
            /\ save'.timeMs * Res <= now - startTimeRef
            /\ now - startTimeRef < (save'.timeMs + 1) * Res
            /\ save'.timeMs >= currentTime
       /\ (save.phase # "none" /\ save'.phase # "none") =>
            save'.timeMs = save.timeMs]_vars

\* C8 witness: a save whose elapsed time was rounded down and exceeds the
\* last time displayed.
C8_FlooredSavePending ==
    /\ save.phase = "createSolve"
    /\ prevTimerState = running
    /\ event \in {"KeyDown", "ClickStartStop"}
    /\ save.timeMs > 0
    /\ save.timeMs * Res < now - startTimeRef

\* A stop event: a key down or a Start/Stop click while the timer runs.
StopEvent ==
    /\ timerState = running
    /\ event' \in {"KeyDown", "ClickStartStop"}

\* C9 as stated: every stop event in running resets to idle and 0 and
\* dispatches the save in the same step.
C9_EveryStopEventStops ==
    [][StopEvent =>
         /\ timerState' = idle
         /\ currentTime' = 0
         /\ save'.phase = "createSolve"
         /\ nCreate' = nCreate + 1]_vars

\* C9 amended: a stop event in running with loading false resets to idle and
\* 0 and dispatches the save in the same step, the createSolve call still
\* pending; with loading true (an updateSolve call pending) it is ignored.
C9_StopEventStopsUnlessLoading ==
    [][/\ (StopEvent /\ ~loading) =>
            /\ timerState' = idle
            /\ currentTime' = 0
            /\ save'.phase = "createSolve"
            /\ nCreate' = nCreate + 1
       /\ (StopEvent /\ loading) =>
            /\ timerState' = running
            /\ nCreate' = nCreate]_vars

\* C9 witness: idle with the display at 0 while createSolve is pending.
C9_IdleWhileCreatePending ==
    /\ prevTimerState = running
    /\ timerState = idle
    /\ currentTime = 0
    /\ save.phase = "createSolve"
    /\ now > startTimeRef

\* C10 as stated: a key down in idle while createSolve is pending arms.
C10_ArmsWhileSavePending ==
    [][(event' = "KeyDown" /\ timerState = idle
                           /\ save.phase = "createSolve") =>
         timerState' = arming]_vars

\* C10 amended: the stop leaves idle at once, but a key down in idle is
\* ignored while the save is in flight (createSolve or a follow-up call
\* pending) and arms only once loading is false.
C10_ArmsOnlyAfterSave ==
    [][/\ (event' = "KeyDown" /\ timerState = idle /\ save.phase # "none")
            => (timerState' = idle /\ timeouts' = timeouts)
       /\ (event' = "KeyDown" /\ timerState = idle /\ ~loading)
            => timerState' = arming]_vars

\* C10 witness: a key down in idle was ignored while createSolve was pending.
C10_KeyDownIgnoredWhileSaving ==
    /\ event = "KeyDown"
    /\ prevTimerState = idle
    /\ timerState = idle
    /\ save.phase = "createSolve"

\* C11: under LiveSpec, where every pending collaborator call settles sooner
\* or later, every save that a stop began is followed by a state in which
\* the timer is idle, loading is false and no save is in flight, whether
\* createSolve resolved or rejected.
C11_SaveEndsIdleNotLoading ==
    (save.phase = "createSolve")
        ~> (timerState = idle /\ ~loading /\ save.phase = "none")

\* C11 witness: createSolve rejected and left the page idle and free.
C11_RejectedSaveLeftPageFree ==
    /\ event = "CreateSolveRejects"
    /\ timerState = idle
    /\ ~loading
    /\ save = NoSave

\* C12: at most one clock loop is scheduled at any moment: the browser holds
\* at most one pending frame callback of the page, and animationFrameRef and
\* inspectionRafRef are never both set.
C12_AtMostOneClockLoop ==
    /\ frames.stopwatch + frames.inspection <= 1
    /\ ~(animationFrameRef # 0 /\ inspectionRafRef # 0)

\* C12 witness: a key down in inspection started the stopwatch loop and the
\* inspection loop is gone.
C12_StopwatchReplacedInspection ==
    /\ event = "KeyDown"
    /\ prevTimerState = inspection
    /\ timerState = running
    /\ frames = [stopwatch |-> 1, inspection |-> 0]

\* C13: in every reachable state the stopwatch loop is scheduled exactly when
\* timerState is running, and the inspection loop exactly when timerState is
\* inspection.
C13_LoopIffState ==
    /\ (frames.stopwatch > 0) <=> (timerState = running)
    /\ (animationFrameRef # 0) <=> (timerState = running)
    /\ (frames.inspection > 0) <=> (timerState = inspection)
    /\ (inspectionRafRef # 0) <=> (timerState = inspection)

\* C13 witness: a stop left the page idle with no loop scheduled.
C13_NoLoopAfterStop ==
    /\ event \in {"KeyDown", "ClickStartStop"}
    /\ prevTimerState = running
    /\ timerState = idle
    /\ frames = [stopwatch |-> 0, inspection |-> 0]

\* C15: an inspection tick never changes timerState, and a step that leaves
\* inspection is a key down or a click on Start/Stop and leads to running:
\* nothing leaves inspection by itself, however long it lasts.
C15_InspectionLeftOnlyByPress ==
    [][/\ event' = "InspectionFrame" => timerState' = timerState
       /\ (timerState = inspection /\ timerState' # inspection)
            => /\ event' \in {"KeyDown", "ClickStartStop"}
               /\ timerState' = running]_vars

\* C15 witness: a tick more than 2 s after the 15 s left the page in
\* inspection.
C15_StillInspectingLongAfter ==
    /\ event = "InspectionFrame"
    /\ timerState = inspection
    /\ inspectionOverMs > LATE_PLUS2_MS * Res

\* C20: an inspection tick at elapsed time e since the start of inspection
\* sets the remaining time to 15000 - e and the overrun to 0 while e is at
\* most 15000 ms, and the remaining time to 0 and the overrun to e - 15000
\* after that; so both are at least 0, the remaining time is at most 15000
\* and at most one of them is not 0.  The display then shows the countdown
\* without a sign exactly while the remaining time is positive, and the
\* overrun after a '+' otherwise.
C20_TickSplitsElapsed ==
    [][event' = "InspectionFrame" =>
        LET e == now - inspectionStartRef
            limit == INSPECTION_MS * Res
            shown == renderMainTime(Page)'
        IN  /\ e <= limit => inspectionMsLeft' = limit - e /\ inspectionOverMs' = 0
            /\ e > limit => inspectionMsLeft' = 0 /\ inspectionOverMs' = e - limit
            /\ inspectionMsLeft' \in 0..limit
            /\ inspectionOverMs' >= 0
            /\ inspectionMsLeft' = 0 \/ inspectionOverMs' = 0
            /\ e < limit => shown = [sign |-> "", hundredths |-> ToFixed2(limit - e)]
            /\ e >= limit => shown = [sign |-> "+", hundredths |-> ToFixed2(e - limit)]
      ]_vars

\* C20 witness: a tick exactly 15 s after the start of inspection left both
\* the remaining time and the overrun at 0.
C20_TickAtTheLimit ==
    /\ event = "InspectionFrame"
    /\ now - inspectionStartRef = INSPECTION_MS * Res
    /\ inspectionMsLeft = 0
    /\ inspectionOverMs = 0

\* C14 as stated: once the page is torn down, no callback that it scheduled
\* fires: no frame, no arm timer, no message timer.
C14_NoCallbackAfterTeardown ==
    [][~mounted =>
        event' \notin {"StopwatchFrame", "InspectionFrame",
                       "ArmingTimeoutFires", "SavingMessageTimeoutFires"}]_vars

\* The events in which a collaborator call fails.
RejectEvents ==
    {"CreateSolveRejects", "ScoreSolveRejects", "GetScrambleRejects",
     "UpdateSolveRejects", "NewScrambleRejects", "GetLiveStatsRejects",
     "GetOptimalSolutionRejects"}

C17_ScoreFailureShowsTheSave ==
    [][event' = "ScoreSolveRejects" =>
        /\ error' = ""
        /\ lastSolve' = save.id
        /\ liveStats' = [from |-> "save", id |-> save.id]
        /\ savingMessage' = "Saved"
        /\ save'.phase = "getScramble"]_vars

\* C17, the step alone: the failure of scoreSolve changes neither lastSolve
\* nor the live statistics nor the message, shows no error and has the
\* scramble fetched.
C17_ScoreFailureChangesNothing ==
    [][event' = "ScoreSolveRejects" =>
        /\ error' = ""
        /\ lastSolve' = save.id
        /\ UNCHANGED << lastSolve, liveStats, savingMessage >>
        /\ save'.phase = "getScramble"]_vars

\* C17 witness: scoreSolve failed and the page shows the save: no error, the
\* saved solve, its statistics and 'Saved', with the scramble being fetched.
C17_SaveShownAfterScoreFailure ==
    /\ event = "ScoreSolveRejects"
    /\ error = ""
    /\ lastSolve = save.id
    /\ liveStats = [from |-> "save", id |-> save.id]
    /\ savingMessage = "Saved"
    /\ save.phase = "getScramble"

\* C18: a confirmed click on Reveal sends the state to getOptimalSolution
\* only when it has 54 characters; with any other state it sets the error
\* message, starts no call, leaves solutionLoading false and the displayed
\* solution as it was.  No other step starts a getOptimalSolution call.
C18_OnlyFullStateIsSent ==
    [][/\ (event' = "ClickRevealConfirmed" /\ scrambleState.len # STATE_LENGTH)
            => /\ error' = "Missing cube state for this scramble. (Expected 54 chars.)"
               /\ solution' = NoRequest
               /\ ~solutionLoading'
               /\ optimalSolutionMoves' = optimalSolutionMoves
       /\ (solution' # solution /\ solution' # NoRequest)
            => /\ event' = "ClickRevealConfirmed"
               /\ solution' = scrambleState
               /\ solution'.len = STATE_LENGTH]_vars

\* C18 witness: Reveal was confirmed with a state of 53 characters.
C18_RevealRefusedShortState ==
    /\ event = "ClickRevealConfirmed"
    /\ scrambleState.len = STATE_LENGTH - 1
    /\ error = "Missing cube state for this scramble. (Expected 54 chars.)"
    /\ solution = NoRequest

\* C19: the preference is true at startup when nothing is stored; it
\* changes only by a toggle or when the page is loaded anew; a toggle
\* negates it and stores exactly "true" or "false" for the new value; and a
\* reload keeps the stored item and, when it is "true" or "false", comes up
\* with the preference the page had.
C19_PreferenceRoundTrip ==
    /\ (stored = NoItem => inspectionEnabled)
    /\ [][
          /\ (event' = "Reload" /\ stored = NoItem) => inspectionEnabled'
          /\ inspectionEnabled' # inspectionEnabled
               => event' \in {"ClickToggleInspection", "Reload"}
          /\ event' = "ClickToggleInspection"
               => /\ inspectionEnabled' = ~inspectionEnabled
                  /\ stored' = IF inspectionEnabled' THEN "true" ELSE "false"
          /\ event' # "ClickToggleInspection" => stored' = stored
          /\ (event' = "Reload" /\ stored \in {"true", "false"})
               => inspectionEnabled' = inspectionEnabled
          /\ stored' \in {"true", "false"}
               => (inspectionEnabled' <=> stored' = "true")
       ]_vars

\* C19 witness: the page was loaded anew with "false" stored by a toggle
\* after a solve, and inspection is off.
C19_ReloadedWithInspectionOff ==
    /\ event = "Reload"
    /\ stored = "false"
    /\ ~inspectionEnabled
    /\ nCreate > 0

\* C21: a step that enters running shows 0; every stopwatch tick shows the
\* whole milliseconds between the start timestamp and the instant of the tick;
\* and from one state of a running session to the next the displayed time
\* never decreases.
C21_DisplayedTimeIsFloorAndMonotone ==
    [][
        /\ (timerState # running /\ timerState' = running) => currentTime' = 0
        /\ event' = "StopwatchFrame" =>
              /\ timerState = running
              /\ currentTime' * Res <= now - startTimeRef
              /\ now - startTimeRef < (currentTime' + 1) * Res
        /\ (timerState = running /\ timerState' = running) =>
              currentTime' >= currentTime
    ]_vars

\* C21 witness: a tick of a session that did not start at instant 0 shows a
\* positive time while the elapsed time is not a whole number of milliseconds.
C21_TickShowsFlooredElapsed ==
    /\ event = "StopwatchFrame"
    /\ timerState = running
    /\ startTimeRef > 0
    /\ currentTime > 0
    /\ (now - startTimeRef) % Res # 0

\* C22: a stopwatch tick runs only in a running session, and every state
\* outside a running session displays 0: after the stop has reset the display
\* it stays 0 until the next session begins.
C22_NoTickAfterStop ==
    [][
        /\ event' = "StopwatchFrame" => timerState = running
        /\ timerState' # running => currentTime' = 0
        /\ (StopEvent /\ timerState' = idle) => frames'.stopwatch = 0
    ]_vars

\* C22 witness: time passed after a stop of a session that had displayed a
\* positive time, and the page still displays 0.
C22_DisplayStaysZeroAfterStop ==
    /\ event = "Advance"
    /\ timerState = idle
    /\ save.phase = "createSolve"
    /\ save.timeMs > 0
    /\ now > startTimeRef + save.timeMs * Res
    /\ currentTime = 0

\* C28: on every reachable page, and on the page each cancel leaves, cancelling
\* a loop that is not scheduled changes nothing, and cancelling twice gives the
\* page that cancelling once gives. The cancels are stopInspection and the
\* cancel step shared by startTimer, startInspection and stopTimer.
C28_CancelIdempotent ==
    \A s \in {Page, stopInspection(Page), cancelStopwatch(Page)} :
        /\ s.inspectionRafRef = 0 => stopInspection(s) = s
        /\ s.animationFrameRef = 0 => cancelStopwatch(s) = s
        /\ stopInspection(stopInspection(s)) = stopInspection(s)
        /\ cancelStopwatch(cancelStopwatch(s)) = cancelStopwatch(s)

\* C28 witness: a press during a running session that followed an inspection:
\* the stop cancelled the stopwatch loop, the inspection loop was cancelled
\* when the session began, and no loop is left.
C28_CancelledBothLoops ==
    /\ event = "KeyDown"
    /\ prevTimerState = running
    /\ timerState = idle
    /\ inspectionStartRef > 0
    /\ startTimeRef > inspectionStartRef
    /\ animationFrameRef = 0
    /\ inspectionRafRef = 0
    /\ stopInspection(Page) = Page
    /\ cancelStopwatch(Page) = Page

\* C30: in every reachable state timerState is one of idle, arming, ready,
\* inspection and running; 'stopped' is never reached.
C30_NeverStopped ==
    /\ timerState \in {idle, arming, ready, inspection, running}
    /\ timerStateRef \in {idle, arming, ready, inspection, running}
    /\ prevTimerState # "stopped"

\* C30 witness: a click on Stop ended a running session in idle.
C30_StopEndsInIdle ==
    /\ event = "ClickStartStop"
    /\ prevTimerState = running
    /\ timerState = idle
    /\ save.phase = "createSolve"

\* C23: the calls of a save are made in the order createSolve, scoreSolve,
\* getScramble, each after the one before it has settled; loading is set when
\* createSolve is called and stays set until getScramble has settled (or
\* createSolve has failed); and while scoreSolve or getScramble is pending a
\* key down, a key up or a click on Start/Stop leaves the timer as it is.
C23_SaveCallsInOrderUnderGuard ==
    [][
        /\ save'.phase # save.phase =>
              \/ /\ save.phase = "none"
                 /\ save'.phase = "createSolve"
                 /\ StopEvent
              \/ /\ save.phase = "createSolve"
                 /\ save'.phase = "scoreSolve"
                 /\ event' = "CreateSolveResolves"
              \/ /\ save.phase = "createSolve"
                 /\ save'.phase = "none"
                 /\ event' = "CreateSolveRejects"
              \/ /\ save.phase = "scoreSolve"
                 /\ save'.phase = "getScramble"
                 /\ event' \in {"ScoreSolveResolves", "ScoreSolveRejects"}
              \/ /\ save.phase = "getScramble"
                 /\ save'.phase = "none"
                 /\ event' \in {"GetScrambleResolves", "GetScrambleRejects"}
        /\ save'.phase # "none" => loading' /\ loadingRef'
        /\ (save.phase # "none" /\ save'.phase = "none") => ~loading'
        /\ ( /\ save.phase \in {"scoreSolve", "getScramble"}
             /\ event' \in {"KeyDown", "KeyUp", "ClickStartStop"} ) =>
              /\ timerState' = timerState
              /\ save' = save
              /\ nCreate' = nCreate
    ]_vars

\* C23 witness: a key down while the scramble fetch of a save was pending left
\* the page idle and loading.
C23_KeyDownIgnoredWhileFetching ==
    /\ event = "KeyDown"
    /\ save.phase = "getScramble"
    /\ timerState = idle
    /\ loading

\* C24: the step in which createSolve fails shows 'Failed to save solve',
\* clears the saving message, leaves lastSolve, its penalty, the live
\* statistics, the scramble and the timer as they were, ends the save without
\* a scoreSolve or getScramble call and without another createSolve call, and
\* clears loading.
C24_CreateFailureIsTerminal ==
    [][ event' = "CreateSolveRejects" =>
            /\ save.phase = "createSolve"
            /\ error' = "Failed to save solve"
            /\ savingMessage' = ""
            /\ lastSolve' = lastSolve
            /\ lastSolvePenalty' = lastSolvePenalty
            /\ liveStats' = liveStats
            /\ scramble' = scramble
            /\ scrambleState' = scrambleState
            /\ timerState' = timerState
            /\ save' = NoSave
            /\ nCreate' = nCreate
            /\ ~loading'
            /\ ~loadingRef'
    ]_vars

\* C24 witness: the second save failed after the first had succeeded, and the
\* page still shows the first solve, its statistics and the scramble fetched
\* after it.
C24_SecondSaveFailed ==
    /\ event = "CreateSolveRejects"
    /\ nCreate = 2
    /\ lastSolve = 1
    /\ liveStats = [from |-> "save", id |-> 1]
    /\ scramble # 0
    /\ error = "Failed to save solve"
    /\ savingMessage = ""
    /\ save = NoSave
    /\ ~loading

\* C26: a click on a penalty button sets loading and calls updateSolve without
\* changing the displayed penalty; the displayed penalty becomes the requested
\* one in the step in which updateSolve succeeds; when updateSolve fails the
\* displayed penalty is unchanged and 'Failed to update penalty' is shown;
\* both outcomes clear loading; and on a page without last solve the handler
\* changes nothing.
C26_PenaltyShownAfterUpdate ==
    [][
        /\ event' = "ClickPenalty" =>
              /\ lastSolve # 0
              /\ lastSolvePenalty' = lastSolvePenalty
              /\ update' /\ loading'
        /\ event' = "UpdateSolveResolves" =>
              /\ update
              /\ lastSolvePenalty' = newPenalty
              /\ ~update' /\ ~loading'
        /\ event' = "UpdateSolveRejects" =>
              /\ update
              /\ lastSolvePenalty' = lastSolvePenalty
              /\ error' = "Failed to update penalty"
              /\ ~update' /\ ~loading'
        /\ lastSolvePenalty' # lastSolvePenalty =>
              event' \in {"UpdateSolveResolves", "CreateSolveResolves"}
        /\ update' => loading'
        /\ \A p \in Penalties :
              LET s == [Page EXCEPT !.lastSolve = 0]
              IN  handleUpdateLastSolvePenalty(s, p) = s
    ]_vars

\* C26 witness: updateSolve failed for a penalty other than the displayed one.
C26_UpdateFailedPenaltyKept ==
    /\ event = "UpdateSolveRejects"
    /\ lastSolve # 0
    /\ newPenalty # lastSolvePenalty
    /\ error = "Failed to update penalty"
    /\ ~update
    /\ ~loading

\* C25 as stated: whenever an attempt can be armed (the page is idle and not
\* loading) after a successful save, the scramble on the page was requested
\* after that save.
C25_ArmableWithScrambleOfLastSave ==
    (timerState = idle /\ ~loading /\ lastSolve # 0) =>
        /\ scramble # 0
        /\ scrambleRequest >= lastSolve

\* C25: a save whose createSolve succeeded calls getScramble once, after
\* scoreSolve has settled, and loading is cleared in the step in which that
\* call settles; when the call resolves the page has the scramble of that
\* call, requested after the save; when it fails the scramble is unchanged
\* and 'Failed to load scramble' is shown.
C25_OneFetchPerSaveUnderGuard ==
    [][
        /\ (save.phase # "getScramble" /\ save'.phase = "getScramble") =>
              /\ save.phase = "scoreSolve"
              /\ save'.id = save.id
              /\ lastSolve = save.id
              /\ loading /\ loading'
        /\ (save.phase = "getScramble" /\ save' # save) =>
              /\ save' = NoSave
              /\ event' \in {"GetScrambleResolves", "GetScrambleRejects"}
              /\ ~loading'
        /\ (save.phase # "none" /\ save'.phase = "none" /\ lastSolve = save.id) =>
              save.phase = "getScramble"
        /\ save.phase = "getScramble" => loading
        /\ event' = "GetScrambleResolves" =>
              /\ scramble' # 0
              /\ scrambleRequest' = lastSolve
        /\ event' = "GetScrambleRejects" =>
              /\ scramble' = scramble
              /\ scrambleState' = scrambleState
              /\ scrambleRequest' = scrambleRequest
              /\ error' = "Failed to load scramble"
    ]_vars

\* C25 witness: the fetch of a save resolved, and the page has a scramble
\* requested after that save.
C25_FetchedAfterTheSave ==
    /\ event = "GetScrambleResolves"
    /\ lastSolve = 1
    /\ scrambleRequest = 1
    /\ scramble # 0
    /\ save = NoSave
    /\ ~loading

\* C27: the score on the page is always that of the last solve; a score is
\* attached only in the step in which a scoreSolve call resolves, and only
\* when lastSolve is the solve that call scored: the resolution of a call for
\* another solve leaves the score as it was.
C27_ScoreAttachesToItsSolve ==
    [][
        /\ mlScore' \in {0, lastSolve'}
        /\ (mlScore' # mlScore /\ mlScore' # 0) =>
              event' \in {"ScoreSolveResolves", "HandleScoreSolveResolves"}
        /\ event' = "ScoreSolveResolves" =>
              /\ save.phase = "scoreSolve"
              /\ mlScore' = IF lastSolve = save.id THEN save.id ELSE mlScore
        /\ event' = "HandleScoreSolveResolves" =>
              \E i \in 1..Len(scoring) :
                  /\ scoring' = Without(scoring, i)
                  /\ mlScore' = IF lastSolve = scoring[i] THEN scoring[i]
                                ELSE mlScore
    ]_vars

\* C27 witness: the score of the first solve, asked for by handleScoreSolve,
\* arrived when the second solve was the last solve, and was not attached.
C27_LateScoreNotAttached ==
    /\ event = "HandleScoreSolveResolves"
    /\ lastSolve = 2
    /\ mlScore = 0
    /\ scoring = << >>

\* C29: solutionLoading is true exactly while a getOptimalSolution call is
\* pending; a call starts only by a confirmed click on a page that is not
\* running, not loading and has no call pending; a pending call is not
\* replaced and ends, with solutionLoading false, when it resolves or rejects;
\* and on every page that is running, loading or has a call pending the
\* handler changes nothing.
C29_OneSolutionRequestInFlight ==
    [][
        /\ solutionLoading' <=> solution' # NoRequest
        /\ (solution = NoRequest /\ solution' # NoRequest) =>
              /\ event' = "ClickRevealConfirmed"
              /\ timerState # running
              /\ ~loading
              /\ ~solutionLoading
        /\ solution # NoRequest =>
              \/ solution' = solution
              \/ /\ solution' = NoRequest
                 /\ event' \in {"GetOptimalSolutionResolves",
                                "GetOptimalSolutionRejects"}
                 /\ ~solutionLoading'
        /\ (timerState = running \/ loading \/ solutionLoading) =>
              handleRevealOptimalSolution(Page, TRUE) = Page
    ]_vars

\* C29 witness: a session is running while the getOptimalSolution call made
\* before it is still pending.
C29_RunningWhileRequestPending ==
    /\ timerState = running
    /\ solution # NoRequest
    /\ solutionLoading
    /\ handleRevealOptimalSolution(Page, TRUE) = Page

\* C31: whenever an optimal solution is displayed, it is the solution of the
\* scramble state on the page.
C31_SolutionIsOfDisplayedScramble ==
    optimalSolutionMoves # 0 => optimalSolutionMoves = scrambleState.of

\* C32: in every state the scramble and the cube state on the page are those
\* of one getScramble response: they change only together, in a step in which
\* a getScramble call resolves, to the pair of its response; and the scramble
\* and state sent to createSolve are those on the page when the stop event
\* arrives.
C32_ScrambleAndStateArePaired ==
    [][
        /\ scrambleState'.of = scramble'
        /\ (scramble' # scramble \/ scrambleState' # scrambleState) =>
              /\ event' \in {"NewScrambleResolves", "GetScrambleResolves"}
              /\ \E r \in Responses :
                    scramble' = r.scramble /\ scrambleState' = r.state
        /\ (StopEvent /\ save'.phase = "createSolve") =>
              /\ save'.scramble = scramble
              /\ save'.state = scrambleState
        /\ (save.phase # "none" /\ save'.phase # "none") =>
              /\ save'.scramble = save.scramble
              /\ save'.state = save.state
    ]_vars

\* C32 witness: while the save of a solve of one scramble was pending, an
\* older getScramble call resolved with another scramble, before the fetch of
\* the save: the page has the pair of that response.
C32_FetchOvertookTheSave ==
    /\ event = "NewScrambleResolves"
    /\ save.phase \in {"createSolve", "scoreSolve", "getScramble"}
    /\ save.scramble # 0
    /\ save.scramble # scramble
    /\ scrambleState.of = scramble

\* C33: a save and a penalty update are never pending together; loading is
\* true exactly while one of them is pending; a createSolve call and an
\* updateSolve call are made only when neither is pending; and a step that
\* clears loading ends the one operation that was pending.
C33_OneGuardedOperationInFlight ==
    [][
        /\ ~(save'.phase # "none" /\ update')
        /\ loading' <=> (save'.phase # "none" \/ update')
        /\ nCreate' # nCreate =>
              /\ nCreate' = nCreate + 1
              /\ save = NoSave /\ ~update /\ ~loading
              /\ save'.phase = "createSolve"
        /\ (~update /\ update') =>
              /\ event' = "ClickPenalty"
              /\ save = NoSave /\ ~loading
        /\ (loading /\ ~loading') =>
              /\ save' = NoSave /\ ~update'
              /\ event' \in {"CreateSolveRejects", "GetScrambleResolves",
                             "GetScrambleRejects", "UpdateSolveResolves",
                             "UpdateSolveRejects"}
    ]_vars

\* C33 witness: a key down during a running session, while a penalty update
\* of the previous solve is pending, starts no save.
C33_StopRefusedWhileUpdating ==
    /\ event = "KeyDown"
    /\ prevTimerState = running
    /\ timerState = running
    /\ update
    /\ loading
    /\ save = NoSave
    /\ nCreate = lastSolve

\* C34: a key-down event that arrives while the key is already down (an
\* auto-repeat of the same press) causes no transition and starts no save.
C34_RepeatedKeyDownDoesNothing ==
    [][ (event' = "KeyDown" /\ spaceHeld) =>
            /\ timerState' = timerState
            /\ nCreate' = nCreate
    ]_vars

\* C35: while timerState is running the inspection preference does not
\* change; so throughout a running session, and at the stop that ends it, the
\* preference is the one the page had when the session entered running, and
\* the penalty stopTimer sends is computed from that value.
C35_PreferenceFixedWhileRunning ==
    [][
        /\ timerState = running => inspectionEnabled' = inspectionEnabled
        /\ timerState' = running => inspectionEnabled' = enabledAt'.timing
        /\ (StopEvent /\ nCreate' # nCreate) =>
              /\ inspectionEnabled = enabledAt.timing
              /\ save'.penalty = AutoPenalty(enabledAt.timing, inspectionOverMs)
    ]_vars

\* C35 witness: the first attempt went through an inspection, begun with the
\* preference on, the preference was switched off during the inspection, and
\* the stop found it off, as it was when timing began.
C35_SwitchedOffDuringInspection ==
    /\ event \in {"KeyDown", "ClickStartStop"}
    /\ prevTimerState = running
    /\ timerState = idle
    /\ nCreate = 1
    /\ save.phase = "createSolve"
    /\ enabledAt.inspection
    /\ ~enabledAt.timing
    /\ ~inspectionEnabled
    /\ inspectionOverMs > 0
    /\ save.penalty = "OK"

\* ------------------------------------------- the actions of the App component
\* The next state of the App component is a; ev names the action taken.
AppBecomes(a, ev) ==
    /\ app' = a
    /\ event' = ev
    /\ UNCHANGED << timerVars, pageVars, signup, now, spaceHeld,
                    prevTimerState, scope >>

\* Lines 381-382: a click on Login (the button is disabled by isLoading).
ClickLogin ==
    /\ Rendered(app) = "LoginPage"
    /\ ~app.isLoading
    /\ app.nLogin < MaxLogins
    /\ AppBecomes(handleLogin(app), "ClickLogin")

LoginResolves ==
    /\ app.call = "login"
    /\ \E t \in Accounts : AppBecomes(loginResolved(app, t), "LoginResolves")

LoginRefused ==
    /\ app.call = "login"
    /\ AppBecomes(loginRefused(app), "LoginRefused")

\* Lines 267 and 392: a click on the link to the signup screen.
ClickSwitchToSignup ==
    /\ Rendered(app) = "LoginPage"
    /\ AppBecomes([app EXCEPT !.currentPage = "signup"], "ClickSwitchToSignup")

\* Lines 269 and 475: a click on the link to the login screen.
ClickSwitchToLogin ==
    /\ Rendered(app) = "SignupPage"
    /\ AppBecomes([app EXCEPT !.currentPage = "login"], "ClickSwitchToLogin")

\* Lines 464-465: a click on Sign Up (the button is disabled by isLoading).
ClickSignup ==
    /\ Rendered(app) = "SignupPage"
    /\ ~app.isLoading
    /\ AppBecomes(handleSignup(app), "ClickSignup")

AppSignupResolves ==
    /\ app.call = "signup"
    /\ AppBecomes(signupResolved(app), "AppSignupResolves")

AppSignupRefused ==
    /\ app.call = "signup"
    /\ AppBecomes(signupRefused(app), "AppSignupRefused")

\* Lines 548-549: a click on Solve (the button is disabled by isLoading).
ClickSolve ==
    /\ Rendered(app) = "HomePage"
    /\ ~app.isLoading
    /\ AppBecomes(handleSolve(app), "ClickSolve")

SolveSettles ==
    /\ app.call = "solve"
    /\ AppBecomes(solveSettled(app), "SolveSettles")

\* Line 285: a click on Home in the navigation bar.
ClickHome ==
    /\ app.token # 0
    /\ AppBecomes([app EXCEPT !.currentPage = "home"], "ClickHome")

\* Lines 294-297: a click on History in the navigation bar.
ClickSolves ==
    /\ app.token # 0
    /\ AppBecomes([app EXCEPT !.currentPage = "solves"], "ClickSolves")

\* Line 310: a click on Logout in the navigation bar.
ClickLogout ==
    /\ app.token # 0
    /\ AppBecomes(handleLogout(app), "ClickLogout")

FetchUserResolves ==
    \E i \in 1..Len(app.me) :
        AppBecomes(fetchUserResolved(app, i), "FetchUserResolves")

FetchUserRefused ==
    \E i \in 1..Len(app.me) :
        AppBecomes(fetchUserRefused(app, i), "FetchUserRefused")

FetchUserFails ==
    \E i \in 1..Len(app.me) :
        AppBecomes(fetchUserFailed(app, i), "FetchUserFails")

\* The browser reloads the application: the calls in flight are gone and the
\* component is constructed again with what localStorage holds.
AppReload ==
    AppBecomes([AppMount(app.storedToken) EXCEPT !.nLogin = app.nLogin],
               "AppReload")

NextApp ==
    \/ ClickLogin
    \/ LoginResolves
    \/ LoginRefused
    \/ ClickSwitchToSignup
    \/ ClickSwitchToLogin
    \/ ClickSignup
    \/ AppSignupResolves
    \/ AppSignupRefused
    \/ ClickSolve
    \/ SolveSettles
    \/ ClickHome
    \/ ClickSolves
    \/ ClickLogout
    \/ FetchUserResolves
    \/ FetchUserRefused
    \/ FetchUserFails
    \/ AppReload

AppSpec == InitApp /\ [][NextApp]_vars

\* C36: in the App component a user record is present only while a token is
\* present (so after a logout both stay null until the next login, whatever
\* fetchUser response arrives), and whenever token is null the screen
\* rendered is the login or the signup screen.
C36_UserOnlyWithToken ==
    /\ app.user # 0 => app.token # 0
    /\ app.token = 0 => Rendered(app) \in {"LoginPage", "SignupPage"}

\* ----------------------------------------------- the actions of the SignupPage
SkillModes == {"later", "wca", "self"}

\* The texts typed into the WCA ID input.
WcaIds ==
    { << >>, << " ", " " >>, << " ", "2", "0", "1", "9", " ", " " >>,
      << "2", "0", "1", "9", "D", "O", "E", "J", "0", "1" >> }

\* The texts typed into the average input.
AverageTexts ==
    { << >>, << " " >>, << "a", "b" >>, << "0" >>, << "-", "5" >>,
      << "1", "8", ".", "5" >>, << " ", "3", "0", "0" >>,
      << "3", "0", "0", ".", "5" >> }

\* The messages of a rejected signup call: "" when the response has none.
SignupMessages == { "", "Email already registered" }

\* The next state of the SignupPage is s; ev names the action taken.
SignupBecomes(s, ev) ==
    /\ signup' = s
    /\ event' = ev
    /\ UNCHANGED << timerVars, pageVars, app, now, spaceHeld, prevTimerState,
                    scope >>

\* Lines 155, 167 and 179: a click on one of the skill setup buttons.
ClickSkillMode ==
    \E m \in SkillModes :
        SignupBecomes([signup EXCEPT !.skillMode = m], "ClickSkillMode")

\* Lines 190-203: the WCA ID input, rendered in the mode 'wca'.
TypeWcaId ==
    /\ signup.skillMode = "wca"
    /\ \E t \in WcaIds : SignupBecomes([signup EXCEPT !.wcaId = t], "TypeWcaId")

\* Lines 205-218: the average input, rendered in the mode 'self'.
TypeSelfAvgSeconds ==
    /\ signup.skillMode = "self"
    /\ \E t \in AverageTexts :
           SignupBecomes([signup EXCEPT !.selfAvgSeconds = t],
                         "TypeSelfAvgSeconds")

\* Line 111: the form is submitted.
Submit ==
    /\ validateSkillInputs(signup) = Null => signup.nSubmit < MaxSubmits
    /\ SignupBecomes(handleSubmit(signup), "Submit")

SubmitSignupResolves ==
    \E i \in 1..Len(signup.runs) :
        /\ signup.runs[i].at = "signup"
        /\ SignupBecomes(submitSignupResolved(signup, i), "SubmitSignupResolves")

SubmitSignupRejects ==
    \E i \in 1..Len(signup.runs), msg \in SignupMessages :
        /\ signup.runs[i].at = "signup"
        /\ SignupBecomes(submitSignupRejected(signup, i, msg),
                         "SubmitSignupRejects")

LinkWcaResolves ==
    \E i \in 1..Len(signup.runs) :
        /\ signup.runs[i].at = "linkWca"
        /\ SignupBecomes(linkWcaResolved(signup, i), "LinkWcaResolves")

SetSelfReportedAverageResolves ==
    \E i \in 1..Len(signup.runs) :
        /\ signup.runs[i].at = "setSelfReportedAverage"
        /\ SignupBecomes(setSelfReportedAverageResolved(signup, i),
                         "SetSelfReportedAverageResolves")

\* The linkWca or the setSelfReportedAverage call of a run rejects.
SkillSetupRejects ==
    \E i \in 1..Len(signup.runs) :
        /\ signup.runs[i].at \in {"linkWca", "setSelfReportedAverage"}
        /\ SignupBecomes(skillSetupRejected(signup, i), "SkillSetupRejects")

NextSignup ==
    \/ ClickSkillMode
    \/ TypeWcaId
    \/ TypeSelfAvgSeconds
    \/ Submit
    \/ SubmitSignupResolves
    \/ SubmitSignupRejects
    \/ LinkWcaResolves
    \/ SetSelfReportedAverageResolves
    \/ SkillSetupRejects

SignupSpec == InitSignup /\ [][NextSignup]_vars

\* C37: a submit whose skill inputs validateSkillInputs rejects shows the
\* error and does nothing else: no signup, linkWca or setSelfReportedAverage
\* call is made, loading is not set (it is false when no earlier submit is
\* pending) and nothing is navigated to.
C37_RejectedSubmitOnlyShowsError ==
    [][(event' = "Submit" /\ validateSkillInputs(signup) # Null) =>
        /\ signup'.error = validateSkillInputs(signup)
        /\ signup'.error # ""
        /\ signup'.runs = signup.runs
        /\ signup'.navigated = signup.navigated
        /\ signup'.loading = signup.loading
        /\ signup.runs = << >> => ~signup'.loading]_vars

\* A submit in the mode 'wca' with an id of four characters between spaces
\* was rejected.
C37_ShortWcaIdRejected ==
    /\ event = "Submit"
    /\ signup.skillMode = "wca"
    /\ Len(signup.wcaId) > WCA_ID_MIN_LENGTH
    /\ signup.error = "That WCA ID looks too short."
    /\ signup.runs = << >>
    /\ signup.navigated = << >>
    /\ ~signup.loading

\* C38: a run of handleSubmit whose signup call resolved navigates exactly
\* once, when it ends: to /dashboard when its skill setup call resolves, to
\* /onboarding in the mode 'later' or when its skill setup call rejects; a
\* run whose signup call rejected ends with an error, without a navigation
\* and without a skill setup call; every run that ends leaves loading false;
\* no other step navigates.
C38_OneNavigationPerSignup ==
    [][/\ event' = "SubmitSignupResolves" =>
            \E i \in 1..Len(signup.runs) :
                /\ signup.runs[i].at = "signup"
                /\ \/ /\ signup.runs[i].skillMode = "later"
                      /\ signup'.navigated =
                             Append(signup.navigated, "/onboarding")
                      /\ signup'.runs = Without(signup.runs, i)
                      /\ ~signup'.loading
                   \/ /\ signup.runs[i].skillMode = "wca"
                      /\ signup'.navigated = signup.navigated
                      /\ signup'.runs =
                             [signup.runs EXCEPT ![i].at = "linkWca"]
                   \/ /\ signup.runs[i].skillMode = "self"
                      /\ signup'.navigated = signup.navigated
                      /\ signup'.runs =
                             [signup.runs EXCEPT
                                 ![i].at = "setSelfReportedAverage"]
       /\ event' \in {"LinkWcaResolves", "SetSelfReportedAverageResolves"} =>
            \E i \in 1..Len(signup.runs) :
                /\ signup.runs[i].at =
                       (IF event' = "LinkWcaResolves" THEN "linkWca"
                        ELSE "setSelfReportedAverage")
                /\ signup'.navigated = Append(signup.navigated, "/dashboard")
                /\ signup'.runs = Without(signup.runs, i)
                /\ ~signup'.loading
       /\ event' = "SkillSetupRejects" =>
            \E i \in 1..Len(signup.runs) :
                /\ signup.runs[i].at \in {"linkWca", "setSelfReportedAverage"}
                /\ signup'.navigated = Append(signup.navigated, "/onboarding")
                /\ signup'.runs = Without(signup.runs, i)
                /\ ~signup'.loading
       /\ event' = "SubmitSignupRejects" =>
            \E i \in 1..Len(signup.runs) :
                /\ signup.runs[i].at = "signup"
                /\ signup'.navigated = signup.navigated
                /\ signup'.runs = Without(signup.runs, i)
                /\ signup'.error # ""
                /\ ~signup'.loading
       /\ event' \in {"Submit", "ClickSkillMode", "TypeWcaId",
                      "TypeSelfAvgSeconds"} =>
            signup'.navigated = signup.navigated]_vars

\* A submit in the mode 'self' ended in /onboarding: its signup call
\* resolved and its setSelfReportedAverage call rejected.
C38_OnboardingAfterFailedSetup ==
    /\ event = "SkillSetupRejects"
    /\ signup.skillMode = "self"
    /\ signup.nSubmit = 1
    /\ signup.navigated = << "/onboarding" >>
    /\ signup.runs = << >>
    /\ ~signup.loading

====
